---- MODULE Spec2Model ----
(***************************************************************************)
(* Museum collection explorer: the viewport / popup synchronisation of     *)
(* App.js and MapView.js (debounced viewport fetch, bounds tracker, popup  *)
(* lifecycle).                                                             *)
(*                                                                         *)
(* Time is counted in steps of 100 ms: every setTimeout of the code is a   *)
(* timer with a remaining time, time advances (Tick) only when no timer is *)
(* due, and a due timer runs its callback as one step.  Every handler is   *)
(* an operator from the state (a record of all the variables) to the state *)
(* after the handler and the React render and effects it causes.           *)
(*                                                                         *)
(* React: a state change is rendered before the next event is handled, so  *)
(* a handler reads the state of the moment it runs; what a timer callback  *)
(* reads is what the render that created it saw (Closure).  The passive    *)
(* effects of a commit run cleanups first (a removed Marker leaves the map *)
(* and its open popup closes), then the effects in source order.           *)
(* Leaflet: a marker's openPopup does nothing when its popup is open;      *)
(* opening a popup may start a pan, whose movestart comes at once; a zoom  *)
(* fires zoomstart and movestart, then zoomend and moveend.                *)
(***************************************************************************)
EXTENDS Integers, Sequences, FiniteSets, Bags, TLC

VARIABLES
  \* App.js state and refs
  occurrences, facets, totalInViewport, filters, loading, initialLoading,
  showExplore, hasConsented, shakeConsent, shakeTimers, debounceTimer,
  \* requests of fetchOccurrences that have not settled, oldest first
  inflight,
  \* MapView state and refs
  isPopupOpen, openPopupInfo, isAutoPanning, reopenAttempted, markerRefs,
  \* ViewportManager state and refs
  hasInitialized, userInteractionRef,
  \* pending setTimeout callbacks of MapView / ViewportManager
  initTimers, reopenTimers, guardTimers,
  \* the Leaflet map: viewport, gestures in progress, the popup on the map
  view, gesture, popup, pendingAutoPan, listening,
  \* history: the burst of bounds events of the last 500 ms, and what the last
  \* step did
  burst, did,
  \* the limits of the session explored
  limits,
  \* the two Chatbot components of the explore page (their state and refs), the
  \* requests they have in flight, the media streams the browser has handed out,
  \* the rejections that left handleSendMessage
  chatbots, chatRequests, suggestionRequests, fileReaders, cameraRequests,
  mediaStreams, unhandledRejections,
  \* the service worker: its cache, the fetch events it is answering, and the
  \* answer it gave last
  swCache, swEvents, swAnswer,
  \* App state and refs of the chat drawer of the mobile layout, and the fingers
  \* that lie on its handle
  isChatbotExpanded, drawerDragOffset, isDragging, touchStartY, touchStartTime, touches,
  \* a RecordPopup: its records prop, its state and its interval timer
  recordsArray, currentIndex, autoScrollEnabled, autoScrollTimerRef,
  \* a function of the code taken alone: its argument and, once it has been
  \* called, its result
  input, output

vars == << occurrences, facets, totalInViewport, filters, loading, initialLoading,
           showExplore, hasConsented, shakeConsent, shakeTimers, debounceTimer, inflight,
           isPopupOpen, openPopupInfo, isAutoPanning, reopenAttempted, markerRefs,
           hasInitialized, userInteractionRef,
           initTimers, reopenTimers, guardTimers,
           view, gesture, popup, pendingAutoPan, listening,
           burst, did, limits,
           chatbots, chatRequests, suggestionRequests, fileReaders, cameraRequests,
           mediaStreams, unhandledRejections,
           swCache, swEvents, swAnswer,
           isChatbotExpanded, drawerDragOffset, isDragging, touchStartY, touchStartTime,
           touches,
           recordsArray, currentIndex, autoScrollEnabled, autoScrollTimerRef,
           input, output >>

-----------------------------------------------------------------------------
(* Bounds of the model *)

\* fetches that may be in flight together
MaxInFlight == 2
\* pending timers of one kind (debounce, init, re-open, guard, shake)
MaxTimers == 2
\* the Leaflet viewports the user can move to are 0 .. MaxView
MaxView == 1

(* Delays of the code, in steps of 100 ms *)
DebounceDelay == 5
InitDelay == 1
ReopenDelay == 1
GuardDelay == 6
ShakeDelay == 5

-----------------------------------------------------------------------------
(* Data *)

Abs(x) == IF x < 0 THEN -x ELSE x

\* Number.prototype.toFixed(6) of a coordinate given in units of 1e-7 degree:
\* the sign and the magnitude rounded to 1e-6 (ties go to the larger magnitude);
\* a negative value that rounds to zero keeps its sign ("-0.000000")
toFixed6(x) == << x < 0, (Abs(x) + 5) \div 10 >>

\* `${lat},${lng}` of MapView
KeyOf(latitude, longitude) == << toFixed6(latitude), toFixed6(longitude) >>

Rec(i, la, lo) == [id |-> i, latitude |-> la, longitude |-> lo]

\* the occurrence arrays the server answers with: records 1..5 lie in one
\* 6-decimal bucket (with two raw latitudes), record 7 lies elsewhere
DataSets ==
  { << Rec(1, -338688001, 1512093002), Rec(2, -338688004, 1512093002),
       Rec(3, -338688001, 1512093002), Rec(7, -274698000, 1530251000) >>,
    << Rec(2, -338688004, 1512093002), Rec(4, -338688001, 1512093002) >>,
    << Rec(5, -338688001, 1512093002), Rec(7, -274698000, 1530251000) >> }

\* a response of GET /occurrences; <<>> stands for an absent field
Responses ==
  { [occurrences |-> << d >>, facets |-> << { << "records", Len(d) >> } >>,
     totalRecords |-> << Len(d) + 10 >>] : d \in DataSets }
  \cup { [occurrences |-> <<>>, facets |-> <<>>, totalRecords |-> <<>>] }

\* the filter objects handleFilterChange is called with (sets of key/value pairs)
FilterSets == { {}, { << "stateProvince", "Queensland" >> } }

\* the visible bounds at viewport v: corner coordinates in degrees
getVisibleBounds(v) ==
  [north |-> -12 - v, south |-> -40 - v, east |-> 150 + v, west |-> 115 + v]

DefaultBounds == [north |-> -10, south |-> -45, east |-> 155, west |-> 110]

-----------------------------------------------------------------------------
(* Occurrence Grouper: MapView.groupedOccurrences *)

IndexOfKey(groups, key) ==
  IF \E i \in 1 .. Len(groups) : groups[i].key = key
  THEN CHOOSE i \in 1 .. Len(groups) : groups[i].key = key
  ELSE 0

\* a grouper that opens a group for every record
RECURSIVE GroupInto_NoMerge(_, _)
GroupInto_NoMerge(groups, rest) ==
  IF rest = <<>> THEN groups
  ELSE LET record == Head(rest)
       IN GroupInto_NoMerge(
            Append(groups, [latitude |-> record.latitude, longitude |-> record.longitude,
                            records |-> << record >>,
                            key |-> KeyOf(record.latitude, record.longitude)]),
            Tail(rest))

\* a grouper that puts a record in front of the records of its group
RECURSIVE GroupInto_Unshift(_, _)
GroupInto_Unshift(groups, rest) ==
  IF rest = <<>> THEN groups
  ELSE LET record == Head(rest)
           key == KeyOf(record.latitude, record.longitude)
           i == IndexOfKey(groups, key)
           created == IF i = 0
                      THEN Append(groups, [latitude |-> record.latitude,
                                           longitude |-> record.longitude,
                                           records |-> <<>>, key |-> key])
                      ELSE groups
           j == IF i = 0 THEN Len(created) ELSE i
       IN GroupInto_Unshift([created EXCEPT ![j].records = << record >> \o @], Tail(rest))

\* the forEach of groupedOccurrences over the records rest, with the groups made
\* so far in the insertion order of their keys (the order of Object.values)
RECURSIVE GroupInto(_, _)
GroupInto(groups, rest) ==
  IF rest = <<>> THEN groups
  ELSE LET record == Head(rest)
           key == KeyOf(record.latitude, record.longitude)
           i == IndexOfKey(groups, key)
           created == IF i = 0
                      THEN Append(groups, [latitude |-> record.latitude,
                                           longitude |-> record.longitude,
                                           records |-> <<>>, key |-> key])
                      ELSE groups
           j == IF i = 0 THEN Len(created) ELSE i
       IN GroupInto([created EXCEPT ![j].records = Append(@, record)], Tail(rest))

groupedOccurrences(occ) == GroupInto(<<>>, occ)

\* the React key of a group's <Marker>: a marker lives as long as this is unchanged
MarkerKey(group) == << group.key, Len(group.records), group.records[1].id >>

MarkerKeys(occ) ==
  LET g == groupedOccurrences(occ) IN { MarkerKey(g[i]) : i \in 1 .. Len(g) }

\* the Leaflet marker rendered for a group, at position [latitude, longitude]
Marker(group) ==
  [mk |-> MarkerKey(group), latitude |-> group.latitude, longitude |-> group.longitude]

RecordIds(group) == [i \in 1 .. Len(group.records) |-> group.records[i].id]

SeqToSet(q) == { q[i] : i \in 1 .. Len(q) }

-----------------------------------------------------------------------------
(* The state as one record, so that a handler is an operator on states *)

St ==
  [occurrences |-> occurrences, facets |-> facets, totalInViewport |-> totalInViewport,
   filters |-> filters, loading |-> loading, initialLoading |-> initialLoading,
   showExplore |-> showExplore, hasConsented |-> hasConsented,
   shakeConsent |-> shakeConsent, shakeTimers |-> shakeTimers,
   debounceTimer |-> debounceTimer, inflight |-> inflight,
   isPopupOpen |-> isPopupOpen, openPopupInfo |-> openPopupInfo,
   isAutoPanning |-> isAutoPanning, reopenAttempted |-> reopenAttempted,
   markerRefs |-> markerRefs,
   hasInitialized |-> hasInitialized, userInteractionRef |-> userInteractionRef,
   initTimers |-> initTimers, reopenTimers |-> reopenTimers, guardTimers |-> guardTimers,
   view |-> view, gesture |-> gesture, popup |-> popup,
   pendingAutoPan |-> pendingAutoPan, listening |-> listening,
   burst |-> burst, did |-> did, limits |-> limits,
   chatbots |-> chatbots, chatRequests |-> chatRequests,
   suggestionRequests |-> suggestionRequests, fileReaders |-> fileReaders,
   cameraRequests |-> cameraRequests, mediaStreams |-> mediaStreams,
   unhandledRejections |-> unhandledRejections,
   swCache |-> swCache, swEvents |-> swEvents, swAnswer |-> swAnswer,
   isChatbotExpanded |-> isChatbotExpanded, drawerDragOffset |-> drawerDragOffset,
   isDragging |-> isDragging, touchStartY |-> touchStartY,
   touchStartTime |-> touchStartTime, touches |-> touches,
   recordsArray |-> recordsArray, currentIndex |-> currentIndex,
   autoScrollEnabled |-> autoScrollEnabled, autoScrollTimerRef |-> autoScrollTimerRef]

SetApp(s) ==
  /\ occurrences' = s.occurrences /\ facets' = s.facets
  /\ totalInViewport' = s.totalInViewport /\ filters' = s.filters
  /\ loading' = s.loading /\ initialLoading' = s.initialLoading
  /\ showExplore' = s.showExplore /\ hasConsented' = s.hasConsented
  /\ shakeConsent' = s.shakeConsent /\ shakeTimers' = s.shakeTimers
  /\ debounceTimer' = s.debounceTimer /\ inflight' = s.inflight
  /\ isPopupOpen' = s.isPopupOpen /\ openPopupInfo' = s.openPopupInfo
  /\ isAutoPanning' = s.isAutoPanning /\ reopenAttempted' = s.reopenAttempted
  /\ markerRefs' = s.markerRefs
  /\ hasInitialized' = s.hasInitialized /\ userInteractionRef' = s.userInteractionRef
  /\ initTimers' = s.initTimers /\ reopenTimers' = s.reopenTimers
  /\ guardTimers' = s.guardTimers
  /\ view' = s.view /\ gesture' = s.gesture
  /\ popup' = s.popup /\ pendingAutoPan' = s.pendingAutoPan
  /\ listening' = s.listening
  /\ burst' = s.burst /\ did' = s.did /\ limits' = s.limits
  /\ chatbots' = s.chatbots /\ chatRequests' = s.chatRequests
  /\ suggestionRequests' = s.suggestionRequests /\ fileReaders' = s.fileReaders
  /\ cameraRequests' = s.cameraRequests /\ mediaStreams' = s.mediaStreams
  /\ unhandledRejections' = s.unhandledRejections
  /\ swCache' = s.swCache /\ swEvents' = s.swEvents /\ swAnswer' = s.swAnswer
  /\ isChatbotExpanded' = s.isChatbotExpanded /\ drawerDragOffset' = s.drawerDragOffset
  /\ isDragging' = s.isDragging /\ touchStartY' = s.touchStartY
  /\ touchStartTime' = s.touchStartTime /\ touches' = s.touches
  /\ recordsArray' = s.recordsArray /\ currentIndex' = s.currentIndex
  /\ autoScrollEnabled' = s.autoScrollEnabled
  /\ autoScrollTimerRef' = s.autoScrollTimerRef

Set(s) == SetApp(s) /\ UNCHANGED << input, output >>

-----------------------------------------------------------------------------
(* Popup Lifecycle Manager: the handlers of MapView *)

\* handlePopupOpen without the guard flag
handlePopupOpen_NoGuard(s, latitude, longitude) ==
  LET lat == toFixed6(latitude)
      lng == toFixed6(longitude)
      groups == groupedOccurrences(s.occurrences)
      i == IndexOfKey(groups, << lat, lng >>)
      s1 == [s EXCEPT !.isPopupOpen = TRUE]
  IN IF i # 0
     THEN [s1 EXCEPT !.openPopupInfo =
             << [lat |-> lat, lng |-> lng, recordIds |-> RecordIds(groups[i])] >>]
     ELSE s1

\* handlePopupOpen; (latitude, longitude) is e.popup._latlng, the marker's position
handlePopupOpen(s, latitude, longitude) ==
  LET lat == toFixed6(latitude)
      lng == toFixed6(longitude)
      groups == groupedOccurrences(s.occurrences)
      i == IndexOfKey(groups, << lat, lng >>)
      s1 == [s EXCEPT !.isPopupOpen = TRUE]
      s2 == IF i # 0
            THEN [s1 EXCEPT !.openPopupInfo =
                    << [lat |-> lat, lng |-> lng, recordIds |-> RecordIds(groups[i])] >>]
            ELSE s1
  IN [s2 EXCEPT !.isAutoPanning = TRUE,
                !.guardTimers = Append(@, GuardDelay)]

handlePopupClose(s) ==
  [s EXCEPT !.isPopupOpen = FALSE, !.openPopupInfo = <<>>,
            !.reopenAttempted = FALSE, !.isAutoPanning = FALSE]

\* Leaflet fires popupopen / popupclose: the handlers run if MapView has
\* attached them (map.on in the effect on [groupedOccurrences])
popupopen(s, latitude, longitude) ==
  IF s.listening THEN handlePopupOpen(s, latitude, longitude) ELSE s

popupclose(s) == IF s.listening THEN handlePopupClose(s) ELSE s

\* Leaflet's map.closePopup(): an open popup leaves the map and popupclose fires
closePopup(s) ==
  IF s.popup # <<>> THEN popupclose([s EXCEPT !.popup = <<>>]) ELSE s

\* Leaflet's marker.openPopup() on a marker of the map: nothing when its popup is
\* open already; otherwise the popup on the map (if any) closes, this one opens
\* and popupopen fires
openPopup(s, marker) ==
  IF s.popup = << marker >> THEN s
  ELSE popupopen([closePopup(s) EXCEPT !.popup = << marker >>],
                 marker.latitude, marker.longitude)

handleUserInteraction(s) ==
  [closePopup(s) EXCEPT !.openPopupInfo = <<>>, !.isPopupOpen = FALSE]

\* the markers rendered after the occurrence array changed: a marker whose React
\* key is gone is removed from the map (its open popup closes, popupclose fires
\* before any effect of the new render runs), every rendered marker is stored
\* in markerRefs, entries of removed markers stay
ReconcileMarkers(s) ==
  LET groups == groupedOccurrences(s.occurrences)
      live == MarkerKeys(s.occurrences)
      s1 == IF s.popup # <<>> /\ s.popup[1].mk \notin live THEN closePopup(s) ELSE s
      keys == { groups[i].key : i \in 1 .. Len(groups) }
      refs == [k \in (DOMAIN s.markerRefs) \cup keys |->
                 IF k \in keys THEN Marker(groups[IndexOfKey(groups, k)])
                 ELSE s.markerRefs[k]]
      timers == [n \in 1 .. Len(s.reopenTimers) |->
                   [s.reopenTimers[n] EXCEPT
                      !.alive = s.reopenTimers[n].alive
                                /\ s.reopenTimers[n].marker.mk \in live]]
  IN [s1 EXCEPT !.markerRefs = refs, !.reopenTimers = timers]

\* the effect "re-open popup after data reload", run when groupedOccurrences changed
ReopenEffect(s) ==
  IF s.openPopupInfo # <<>> /\ ~s.reopenAttempted
  THEN LET info == s.openPopupInfo[1]
           key == << info.lat, info.lng >>
           groups == groupedOccurrences(s.occurrences)
           i == IndexOfKey(groups, key)
           s1 == [s EXCEPT !.reopenAttempted = TRUE]
       IN IF i # 0 /\ key \in DOMAIN s.markerRefs
          THEN IF \E j \in 1 .. Len(groups[i].records) :
                    groups[i].records[j].id \in SeqToSet(info.recordIds)
               THEN [s1 EXCEPT !.reopenTimers =
                                  Append(@, [rem |-> ReopenDelay,
                                             marker |-> s.markerRefs[key],
                                             alive |-> TRUE])]
               ELSE [s1 EXCEPT !.openPopupInfo = <<>>, !.reopenAttempted = FALSE]
          ELSE [s1 EXCEPT !.openPopupInfo = <<>>, !.reopenAttempted = FALSE]
  ELSE s

\* the effect "track popup open/close state": it attaches the handlers when the
\* map exists (mapRef.current is null while MapView's first effects run, the
\* map being created by MapContainer in that commit)
AttachEffect(s) == [s EXCEPT !.listening = TRUE]

-----------------------------------------------------------------------------
(* Debounced Fetch Controller: App.js *)

\* what the functions created by one render of App close over
Closure(s) == [filters |-> s.filters, il |-> s.initialLoading]

\* the timer handleBoundsChange sets: it keeps the arguments and the
\* loadViewportData of the render (closure c) that created the handler
DebounceTimeout(bounds, showOnlyWithImages, c) ==
  [rem |-> DebounceDelay, bounds |-> bounds, showOnlyWithImages |-> showOnlyWithImages,
   filters |-> c.filters, il |-> c.il]

\* history: the burst gains an event (many: it is not the first of the burst)
BurstEvent(s, bounds) ==
  << [bounds |-> bounds, age |-> 0, fetches |-> 0,
      many |-> s.burst # <<>> /\ s.burst[1].fetches = 0] >>

\* handleBoundsChange without its clearTimeout
handleBoundsChange_NoClear(s, bounds, showOnlyWithImages, c) ==
  [s EXCEPT !.debounceTimer = Append(@, DebounceTimeout(bounds, showOnlyWithImages, c)),
            !.burst = BurstEvent(s, bounds)]

\* handleBoundsChange of the render with closure c
handleBoundsChange(s, bounds, showOnlyWithImages, c) ==
  [s EXCEPT !.debounceTimer = << DebounceTimeout(bounds, showOnlyWithImages, c) >>,
            !.burst = BurstEvent(s, bounds)]

\* onBoundsChange(bounds) as ViewportManager calls it: one argument
onBoundsChange(s, bounds, c) == handleBoundsChange(s, bounds, TRUE, c)

\* loadViewportData up to its await: setLoading(true) and the request
loadViewportData(s, bounds, showOnlyWithImages, c) ==
  LET params == [north |-> bounds.north, south |-> bounds.south,
                 east |-> bounds.east, west |-> bounds.west,
                 showOnlyWithImages |-> showOnlyWithImages, filters |-> c.filters]
  IN [s EXCEPT !.loading = TRUE,
               !.inflight = Append(@, [params |-> params, il |-> c.il,
                                       overtaken |-> FALSE])]

\* the effect of App on [showExplore, filters]
InitialLoadEffect(s) ==
  IF s.showExplore /\ Len(s.occurrences) = 0 /\ ~s.loading
  THEN loadViewportData(s, DefaultBounds, TRUE, Closure(s))
  ELSE s

-----------------------------------------------------------------------------
(* Bounds Tracker: ViewportManager *)

\* the effect on [hasInitialized, map, onBoundsChange]: it runs at mount and after
\* every render of App (which passes a new onBoundsChange), and clears no timer
InitEffect(s) ==
  IF ~s.hasInitialized
  THEN [s EXCEPT !.initTimers = Append(@, [rem |-> InitDelay, c |-> Closure(s)])]
  ELSE s

movestart(s) ==
  IF s.isPopupOpen /\ ~s.isAutoPanning
  THEN handleUserInteraction([s EXCEPT !.userInteractionRef = TRUE])
  ELSE s

\* moveend emitting nothing
moveend_Silent(s) == [s EXCEPT !.userInteractionRef = FALSE]

\* moveend emitting whatever the popup's state
moveend_Always(s) ==
  [onBoundsChange(s, getVisibleBounds(s.view), Closure(s))
     EXCEPT !.userInteractionRef = FALSE]

moveend(s) ==
  LET s1 == IF ~s.isPopupOpen \/ s.userInteractionRef
            THEN onBoundsChange(s, getVisibleBounds(s.view), Closure(s))
            ELSE s
  IN [s1 EXCEPT !.userInteractionRef = FALSE]

\* zoomstart with the guard of movestart
zoomstart_Guarded(s) ==
  IF s.isPopupOpen /\ ~s.isAutoPanning
  THEN handleUserInteraction([s EXCEPT !.userInteractionRef = TRUE])
  ELSE s

zoomstart(s) ==
  IF s.isPopupOpen
  THEN handleUserInteraction([s EXCEPT !.userInteractionRef = TRUE])
  ELSE s

\* zoomend emitting nothing
zoomend_Silent(s) == [s EXCEPT !.userInteractionRef = FALSE]

zoomend(s) ==
  LET s1 == IF ~s.isPopupOpen \/ s.userInteractionRef
            THEN onBoundsChange(s, getVisibleBounds(s.view), Closure(s))
            ELSE s
  IN [s1 EXCEPT !.userInteractionRef = FALSE]

-----------------------------------------------------------------------------
(* React: mounting, unmounting and rendering *)

\* MapView leaves the page: its state, refs and map are gone, and the timers it
\* left behind find no map (getVisibleBounds throws, openPopup does nothing)
UnmountMap(s) ==
  [s EXCEPT !.isPopupOpen = FALSE, !.openPopupInfo = <<>>, !.isAutoPanning = FALSE,
            !.reopenAttempted = FALSE, !.markerRefs = <<>>,
            !.hasInitialized = FALSE, !.userInteractionRef = FALSE,
            !.initTimers = <<>>, !.reopenTimers = <<>>, !.guardTimers = <<>>,
            !.view = 0, !.gesture = "none", !.popup = <<>>,
            !.pendingAutoPan = FALSE, !.listening = FALSE]

\* MapView enters the page: the map is created, the markers of the current
\* groups are rendered, ViewportManager mounts and runs its init effect
MountMap(s) == InitEffect(ReconcileMarkers(s))

AppFields(s) ==
  << s.occurrences, s.facets, s.totalInViewport, s.filters, s.loading,
     s.initialLoading, s.showExplore, s.hasConsented, s.shakeConsent,
     s.isChatbotExpanded, s.drawerDragOffset, s.isDragging >>

\* the render of App after a handler took it from state p to state s, with the
\* effects that run after it; newOcc / newFilters: the handler stored a new
\* occurrence array / filter object
Render(p, s, newOcc, newFilters) ==
  IF AppFields(p) = AppFields(s) /\ ~newOcc /\ ~newFilters THEN s
  ELSE IF ~s.showExplore THEN (IF p.showExplore THEN UnmountMap(s) ELSE s)
  ELSE IF ~p.showExplore THEN MountMap(InitialLoadEffect(s))
  ELSE LET s1 == IF newOcc THEN AttachEffect(ReopenEffect(ReconcileMarkers(s))) ELSE s
           s2 == InitEffect(s1)
           s3 == IF newFilters THEN InitialLoadEffect(s2) ELSE s2
       IN IF s3.loading # s2.loading THEN InitEffect(s3) ELSE s3

-----------------------------------------------------------------------------
(* App.js: consent, navigation, filters *)

handleConsentChange(s, checked) == [s EXCEPT !.hasConsented = checked]

handleStartExploring(s) ==
  IF ~s.hasConsented
  THEN [s EXCEPT !.shakeConsent = TRUE, !.shakeTimers = Append(@, ShakeDelay)]
  ELSE [s EXCEPT !.showExplore = TRUE]

\* a handler that does not look at the consent
handleNavigateToExplore_Unasked(s) == [s EXCEPT !.showExplore = TRUE]

handleNavigateToExplore(s) ==
  IF ~s.hasConsented
  THEN [s EXCEPT !.shakeConsent = TRUE, !.shakeTimers = Append(@, ShakeDelay)]
  ELSE [s EXCEPT !.showExplore = TRUE]

handleNavigateToHome(s) == [s EXCEPT !.showExplore = FALSE]

handleFilterChange(s, newFilters) == [s EXCEPT !.filters = newFilters]

-----------------------------------------------------------------------------
(* App.js: the chat drawer of the mobile layout *)

toggleChatbot(s) == [s EXCEPT !.isChatbotExpanded = ~@]

\* !touchStartY.current: the ref holds null, or the number 0
NoTouchStartY(s) == s.touchStartY = <<>> \/ s.touchStartY[1] = 0

\* clientY is that of the first touch of the event, now is Date.now()
handleTouchStart(s, clientY, now) ==
  [s EXCEPT !.touchStartY = << clientY >>, !.touchStartTime = << now >>,
            !.isDragging = TRUE]

handleTouchMove(s, currentY) ==
  IF NoTouchStartY(s) THEN s
  ELSE LET diff == s.touchStartY[1] - currentY
       IN IF s.isChatbotExpanded
          THEN (IF diff < 0 THEN [s EXCEPT !.drawerDragOffset = diff] ELSE s)
          ELSE (IF diff > 0 THEN [s EXCEPT !.drawerDragOffset = -diff] ELSE s)

\* pixels that count as a swipe
swipeThreshold == 50

\* velocity > velocityThreshold, the threshold being 0.5 pixels per ms: the
\* quotient Math.abs(diff) / touchDuration is Infinity for a duration of 0 and a
\* diff other than 0, and NaN, which is greater than nothing, for 0 / 0
Fast(diff, touchDuration) == 2 * Abs(diff) > touchDuration

handleTouchEnd(s, touchEndY, now) ==
  IF NoTouchStartY(s) THEN s
  ELSE LET diff == s.touchStartY[1] - touchEndY
           touchDuration == now - s.touchStartTime[1]
           shouldToggle ==
             /\ Fast(diff, touchDuration) \/ Abs(diff) > swipeThreshold
             /\ \/ diff > 0 /\ ~s.isChatbotExpanded
                \/ diff < 0 /\ s.isChatbotExpanded
       IN [s EXCEPT !.isChatbotExpanded = IF shouldToggle THEN ~@ ELSE @,
                    !.drawerDragOffset = 0, !.isDragging = FALSE,
                    !.touchStartY = <<>>, !.touchStartTime = <<>>]

-----------------------------------------------------------------------------
(* App.js: loadViewportData after its await *)

OrElse(field, default) == IF field = <<>> THEN default ELSE field[1]

\* the requests left when request i settles; when its response has arrived,
\* those issued before it and still in flight have been overtaken
Settled(s, i, arrived) ==
  [n \in 1 .. Len(s.inflight) - 1 |->
     IF n < i THEN [s.inflight[n] EXCEPT !.overtaken = @ \/ arrived]
     ELSE s.inflight[n + 1]]

\* loadViewportData after its await, with a sequence check: the response to an
\* overtaken request is dropped
loadViewportDataResolved_Sequenced(s, i, data) ==
  IF s.inflight[i].overtaken
  THEN [s EXCEPT !.inflight = Settled(s, i, TRUE), !.loading = FALSE]
  ELSE [s EXCEPT !.inflight = Settled(s, i, TRUE),
                 !.occurrences = OrElse(data.occurrences, <<>>),
                 !.facets = OrElse(data.facets, {}),
                 !.totalInViewport = OrElse(data.totalRecords, 0),
                 !.initialLoading = IF s.inflight[i].il THEN FALSE ELSE @,
                 !.loading = FALSE]

\* loadViewportData after its await, keeping the facets and the total displayed
\* when the response has none
loadViewportDataResolved_Merging(s, i, data) ==
  [s EXCEPT !.inflight = Settled(s, i, TRUE),
            !.occurrences = OrElse(data.occurrences, <<>>),
            !.facets = OrElse(data.facets, @),
            !.totalInViewport = OrElse(data.totalRecords, @),
            !.initialLoading = IF s.inflight[i].il THEN FALSE ELSE @,
            !.loading = FALSE]

\* fetchOccurrences resolved with data: the try block after the await, then finally
loadViewportDataResolved(s, i, data) ==
  [s EXCEPT !.inflight = Settled(s, i, TRUE),
            !.occurrences = OrElse(data.occurrences, <<>>),
            !.facets = OrElse(data.facets, {}),
            !.totalInViewport = OrElse(data.totalRecords, 0),
            !.initialLoading = IF s.inflight[i].il THEN FALSE ELSE @,
            !.loading = FALSE]

\* the catch block clearing what is displayed
loadViewportDataRejected_Clearing(s, i) ==
  [s EXCEPT !.inflight = Settled(s, i, FALSE),
            !.occurrences = <<>>, !.facets = {}, !.totalInViewport = 0,
            !.initialLoading = IF s.inflight[i].il THEN FALSE ELSE @,
            !.loading = FALSE]

\* a catch block that leaves initialLoading alone
loadViewportDataRejected_StillInitial(s, i) ==
  [s EXCEPT !.inflight = Settled(s, i, FALSE), !.loading = FALSE]

\* fetchOccurrences threw: the catch block, then finally
loadViewportDataRejected(s, i) ==
  [s EXCEPT !.inflight = Settled(s, i, FALSE),
            !.initialLoading = IF s.inflight[i].il THEN FALSE ELSE @,
            !.loading = FALSE]

-----------------------------------------------------------------------------
(* Timer callbacks *)

\* the callback of handleBoundsChange's setTimeout
debounceCallback(s) ==
  LET t == Head(s.debounceTimer)
  IN loadViewportData([s EXCEPT !.debounceTimer = Tail(@),
                                !.burst = [n \in 1 .. Len(@) |->
                                             [@[n] EXCEPT !.fetches = @ + 1]]],
                      t.bounds, t.showOnlyWithImages,
                      [filters |-> t.filters, il |-> t.il])

\* the callback of the init effect's setTimeout
initCallback(s) ==
  LET t == Head(s.initTimers)
      s1 == onBoundsChange(s, getVisibleBounds(s.view), t.c)
  IN [s1 EXCEPT !.hasInitialized = TRUE, !.initTimers = Tail(@)]

\* the callback of the re-open effect's setTimeout
reopenCallback(s) ==
  LET t == Head(s.reopenTimers)
      s1 == IF t.alive THEN openPopup(s, t.marker) ELSE s
  IN [s1 EXCEPT !.reopenAttempted = FALSE, !.reopenTimers = Tail(@)]

\* the callback of handlePopupOpen's setTimeout
guardCallback(s) == [s EXCEPT !.isAutoPanning = FALSE, !.guardTimers = Tail(@)]

shakeCallback(s) == [s EXCEPT !.shakeConsent = FALSE, !.shakeTimers = Tail(@)]

-----------------------------------------------------------------------------
(* Chat Session Manager: Chatbot.js.  A text is a sequence of pieces: single   *)
(* characters, or runs of characters that begin and end with no white space    *)
(* and that nothing here looks into.  An absent value (null, undefined) is     *)
(* <<>> and a present one is << v >>.                                          *)

\* App renders a Chatbot in the side panel and one in the bottom sheet
Panels == { "desktop", "mobile" }

MaxSessions == 2

\* the identifiers 'session_' + Math.random()... can come out as
SessionIds == 1 .. MaxSessions

WelcomeText == << "Welcome to the Australian Museum Collection Explorer! I can help you learn about specimens in our collection and identify animals from photos. I can search specimens by scientific or common name, location, date, or catalog number. Try uploading an image or asking me a question!" >>

ClearedText == << "Conversation cleared. How can I help you today?" >>

AnalyseText == << "Please analyse this image" >>

FallbackText == << "I apologize, but I encountered an error. Please try again." >>

IsWhiteSpace(ch) == ch \in { " ", "\t", "\n", "\r" }

RECURSIVE trimStart(_)
trimStart(text) ==
  IF text # <<>> /\ IsWhiteSpace(Head(text)) THEN trimStart(Tail(text)) ELSE text

RECURSIVE trimEnd(_)
trimEnd(text) ==
  IF text # <<>> /\ IsWhiteSpace(text[Len(text)])
  THEN trimEnd(SubSeq(text, 1, Len(text) - 1))
  ELSE text

\* String.prototype.trim
trim(text) == trimEnd(trimStart(text))

\* String.prototype.includes
includes(text, part) ==
  \E i \in 0 .. Len(text) - Len(part) : SubSeq(text, i + 1, i + Len(part)) = part

\* String.prototype.toLowerCase, piece by piece
toLowerCase(text) ==
  [n \in 1 .. Len(text) |->
     CASE text[n] = "Upload" -> "upload"
       [] text[n] = "Tell me about Australian wildlife" -> "tell me about australian wildlife"
       [] text[n] = "What museum specimens do you have?" -> "what museum specimens do you have?"
       [] OTHER -> text[n]]

\* the list whole
slice3_All(list) == list

\* Array.prototype.slice(0, 3)
slice3(list) == SubSeq(list, 1, IF Len(list) < 3 THEN Len(list) ELSE 3)

\* what the user types into the text input
InputTexts == { <<>>, << " ", " " >>, << "h", "i" >> }

\* the suggestions of loadSuggestions when the server sends none
DefaultSuggestions ==
  << << "Upload", " an animal photo to identify" >>,
     << "Tell me about Australian wildlife" >>,
     << "What museum specimens do you have?" >> >>

\* suggestion lists of the server: more than three entries, a blank one among them
SuggestionLists ==
  { << << "Upload" >>, << " " >>, << "h", "i" >>, << "?" >> >> }

\* the data of GET /chat/suggestions
SuggestionData == { [suggestions |-> <<>>] } \cup { [suggestions |-> << l >>] : l \in SuggestionLists }

\* data URLs of images (FileReader.readAsDataURL, canvas.toDataURL): the part
\* before the comma, the comma, and the base64 part after it
FileImage == << "data:image/png;base64", ",", "iVBORw0KGgo" >>
CameraImage == << "data:image/jpeg;base64", ",", "/9j/4AAQSkZJRg" >>

\* the files a file dialog hands to handleImageSelect: none, one above 10 MB, one below
Files == { "none", "large", "image" }

\* the answers of POST /chat
ChatResponses ==
  { [success |-> TRUE, response |-> << "o", "k" >>, suggestions |-> <<>>],
    [success |-> FALSE, response |-> <<>>, suggestions |-> <<>>] }
  \cup { [success |-> TRUE, response |-> << "o", "k" >>, suggestions |-> << l >>] :
           l \in SuggestionLists }

\* the state and refs of a Chatbot at mount, its session identifier being id
FreshChatbot(id) ==
  [messages |-> << [type |-> "assistant", text |-> WelcomeText, image |-> <<>>] >>,
   inputMessage |-> <<>>, suggestions |-> <<>>, isLoading |-> FALSE,
   selectedImage |-> <<>>, imagePreview |-> <<>>, showCamera |-> FALSE,
   sessionId |-> id, streamRef |-> <<>>]

\* no Chatbot is mounted (landing page)
NoChatbot == FreshChatbot(0)

Without(q, i) == [n \in 1 .. Len(q) - 1 |-> IF n < i THEN q[n] ELSE q[n + 1]]

\* track.stop() is called on every track of stream n (a stream of
\* getUserMedia({ video }) has one track; mediaStreams counts the calls)
StopTracks(s, n) == [s EXCEPT !.mediaStreams[n] = @ + 1]

\* the session identifier 'default'
DefaultSession == 0

\* the index of the first piece of text at or after k that is a comma, 0 if none
RECURSIVE IndexOfComma(_, _)
IndexOfComma(text, k) ==
  IF k > Len(text) THEN 0 ELSE IF text[k] = "," THEN k ELSE IndexOfComma(text, k + 1)

\* text.split(',')[1] of a text that includes a comma
SplitAtComma1(text) ==
  LET first == IndexOfComma(text, 1)
      second == IndexOfComma(text, first + 1)
  IN SubSeq(text, first + 1, IF second = 0 THEN Len(text) ELSE second - 1)

\* sendChatMessage that posts the image data as it is
sendChatMessage_Raw(message, context, imageData) ==
  [message |-> message, session_id |-> OrElse(context.session_id, DefaultSession),
   image |-> IF imageData # <<>> /\ imageData[1] # <<>> THEN imageData ELSE <<>>]

\* api.js sendChatMessage: the payload posted to /chat (message || '' of a text
\* is the text; a payload with no image field has image <<>>)
sendChatMessage(message, context, imageData) ==
  [message |-> message, session_id |-> OrElse(context.session_id, DefaultSession),
   image |-> IF imageData # <<>> /\ imageData[1] # <<>>
             THEN << IF includes(imageData[1], << "," >>) THEN SplitAtComma1(imageData[1])
                     ELSE imageData[1] >>
             ELSE <<>>]

clearImage(s, p) ==
  [s EXCEPT !.chatbots[p].selectedImage = <<>>, !.chatbots[p].imagePreview = <<>>]

\* handleSendMessage without its first line
handleSendMessage_NoGuard(s, p, message) ==
  LET c == s.chatbots[p]
      messageText == IF message # <<>> THEN message
                     ELSE IF c.selectedImage # <<>> THEN AnalyseText ELSE <<>>
      userMessage == [type |-> "user", text |-> messageText, image |-> c.imagePreview]
      s1 == [s EXCEPT !.chatbots[p].messages = Append(@, userMessage),
                      !.chatbots[p].inputMessage = <<>>]
  IN [clearImage(s1, p) EXCEPT
        !.chatbots[p].isLoading = TRUE,
        !.chatRequests = Append(@, [panel |-> p, orphan |-> FALSE,
                                    payload |-> sendChatMessage(message,
                                                                [session_id |-> << c.sessionId >>],
                                                                c.selectedImage)])]

\* handleSendMessage up to its await
handleSendMessage(s, p, message) ==
  LET c == s.chatbots[p]
      messageText == IF message # <<>> THEN message
                     ELSE IF c.selectedImage # <<>> THEN AnalyseText ELSE <<>>
      userMessage == [type |-> "user", text |-> messageText, image |-> c.imagePreview]
      s1 == [s EXCEPT !.chatbots[p].messages = Append(@, userMessage),
                      !.chatbots[p].inputMessage = <<>>]
  IN IF trim(message) = <<>> /\ c.selectedImage = <<>> THEN s
     ELSE [clearImage(s1, p) EXCEPT
             !.chatbots[p].isLoading = TRUE,
             !.chatRequests = Append(@, [panel |-> p, orphan |-> FALSE,
                                         payload |-> sendChatMessage(message,
                                                                     [session_id |-> << c.sessionId >>],
                                                                     c.selectedImage)])]

\* the catch block of handleSendMessage without the fallback message, then finally
handleSendMessageCaught_Silent(s, p) == [s EXCEPT !.chatbots[p].isLoading = FALSE]

\* the catch block of handleSendMessage, with no finally after it
handleSendMessageCaught_NoFinally(s, p) ==
  [s EXCEPT !.chatbots[p].messages =
              Append(@, [type |-> "assistant", text |-> FallbackText, image |-> <<>>])]

\* the catch block of handleSendMessage, then finally: nothing is thrown on
handleSendMessageCaught(s, p) ==
  [s EXCEPT !.chatbots[p].messages =
              Append(@, [type |-> "assistant", text |-> FallbackText, image |-> <<>>]),
            !.chatbots[p].isLoading = FALSE]

\* sendChatMessage resolved with response: the try block after the await, then
\* finally; the state setters of a Chatbot that has left the page do nothing
handleSendMessageResolved(s, i, response) ==
  LET r == s.chatRequests[i]
      s1 == [s EXCEPT !.chatRequests = Without(@, i)]
  IN IF r.orphan THEN s1
     ELSE IF response.success
     THEN [s1 EXCEPT !.chatbots[r.panel].messages =
                       Append(@, [type |-> "assistant", text |-> response.response,
                                  image |-> <<>>]),
                     !.chatbots[r.panel].suggestions =
                       IF response.suggestions # <<>> THEN slice3(response.suggestions[1])
                       ELSE @,
                     !.chatbots[r.panel].isLoading = FALSE]
     ELSE handleSendMessageCaught(s1, r.panel)

\* sendChatMessage threw
handleSendMessageRejected(s, i) ==
  LET r == s.chatRequests[i]
      s1 == [s EXCEPT !.chatRequests = Without(@, i)]
  IN IF r.orphan THEN s1 ELSE handleSendMessageCaught(s1, r.panel)

\* the click on a suggestion chip: a suggestion with "upload" opens the file
\* dialog (handleImageSelect runs when the user has chosen a file)
handleSuggestionClick(s, p, suggestion) ==
  IF includes(toLowerCase(suggestion), << "upload" >>) THEN s
  ELSE handleSendMessage(s, p, suggestion)

\* clearConversation that does not ask
clearConversation_Unasked(s, p, confirmed) ==
  [s EXCEPT !.chatbots[p].messages =
              << [type |-> "assistant", text |-> ClearedText, image |-> <<>>] >>]

\* confirmed: what window.confirm returned
clearConversation(s, p, confirmed) ==
  IF confirmed
  THEN [s EXCEPT !.chatbots[p].messages =
                   << [type |-> "assistant", text |-> ClearedText, image |-> <<>>] >>]
  ELSE s

\* loadSuggestions after its await
loadSuggestionsResolved(s, p, data) ==
  [s EXCEPT !.suggestionRequests = @ \ {p},
            !.chatbots[p].suggestions = slice3(OrElse(data.suggestions, DefaultSuggestions))]

loadSuggestionsRejected(s, p) ==
  [s EXCEPT !.suggestionRequests = @ \ {p},
            !.chatbots[p].suggestions = DefaultSuggestions]

\* handleImageSelect: a file below 10 MB is read by a FileReader
handleImageSelect(s, p, file) ==
  IF file = "image" THEN [s EXCEPT !.fileReaders = Append(@, p)] ELSE s

\* reader.onloadend of reader i; result: reader.result (null when the read failed)
onloadend(s, i, result) ==
  [s EXCEPT !.fileReaders = Without(@, i),
            !.chatbots[s.fileReaders[i]].selectedImage = result,
            !.chatbots[s.fileReaders[i]].imagePreview = result]

\* startCamera up to its first await: getUserMedia with facingMode is pending
startCamera(s, p) ==
  [s EXCEPT !.cameraRequests = Append(@, [panel |-> p, orphan |-> FALSE, fallback |-> FALSE])]

\* getUserMedia of camera request i resolved with a new stream: startCamera
\* stores it in streamRef (of a Chatbot that has left the page, too)
startCameraResolved(s, i) ==
  LET r == s.cameraRequests[i]
      s1 == [s EXCEPT !.cameraRequests = Without(@, i), !.mediaStreams = Append(@, 0)]
  IN IF r.orphan THEN s1
     ELSE [s1 EXCEPT !.chatbots[r.panel].streamRef = << Len(s1.mediaStreams) >>,
                     !.chatbots[r.panel].showCamera = TRUE]

\* getUserMedia of camera request i rejected: the first time startCamera asks
\* again without facingMode, the second time it alerts
startCameraRejected(s, i) ==
  IF s.cameraRequests[i].fallback
  THEN [s EXCEPT !.cameraRequests = Without(@, i)]
  ELSE [s EXCEPT !.cameraRequests[i].fallback = TRUE]

stopCamera(s, p) ==
  LET ref == s.chatbots[p].streamRef
      s1 == IF ref # <<>> THEN [StopTracks(s, ref[1]) EXCEPT !.chatbots[p].streamRef = <<>>]
            ELSE s
  IN [s1 EXCEPT !.chatbots[p].showCamera = FALSE]

\* capturePhoto; ready: the video has dimensions, captured: the canvas gave an image
capturePhoto(s, p, ready, captured) ==
  IF ~s.chatbots[p].showCamera \/ ~ready \/ ~captured THEN s
  ELSE stopCamera([s EXCEPT !.chatbots[p].selectedImage = << CameraImage >>,
                            !.chatbots[p].imagePreview = << CameraImage >>], p)

\* the cleanup of a Chatbot's effect on []: the tracks of the stream in streamRef
\* are stopped
CameraCleanup(s, p) ==
  IF s.chatbots[p].streamRef # <<>> THEN StopTracks(s, s.chatbots[p].streamRef[1]) ELSE s

\* the explore page is entered (p: the state before): both Chatbots mount, with
\* the session identifiers ids, and call loadSuggestions
MountChatbots(p, s, ids) ==
  IF ~p.showExplore /\ s.showExplore
  THEN [s EXCEPT !.chatbots = [c \in Panels |-> FreshChatbot(ids[c])],
                 !.suggestionRequests = Panels]
  ELSE s

\* the explore page is left: both Chatbots unmount.  What is still pending for
\* them will find setters that do nothing: the chat and camera requests stay as
\* orphans, suggestion requests and file readers are forgotten
UnmountChatbots(p, s) ==
  IF p.showExplore /\ ~s.showExplore
  THEN [CameraCleanup(CameraCleanup(s, "desktop"), "mobile") EXCEPT
          !.chatbots = [c \in Panels |-> NoChatbot],
          !.chatRequests = [n \in 1 .. Len(@) |-> [@[n] EXCEPT !.orphan = TRUE]],
          !.cameraRequests = [n \in 1 .. Len(@) |-> [@[n] EXCEPT !.orphan = TRUE]],
          !.suggestionRequests = {},
          !.fileReaders = <<>>]
  ELSE s
-----------------------------------------------------------------------------
(* The service worker.  A URL is a text: scheme, host, the port if there is    *)
(* one, and the pieces of the path.  The Cache API: a cache holds one response *)
(* per URL; match and put are for GET requests (match finds nothing for        *)
(* another method, and the promise of put is rejected).                        *)

\* self.location.origin
Origin == << "https://", "museum.test" >>

\* String.prototype.startsWith
startsWith(text, part) == Len(part) <= Len(text) /\ SubSeq(text, 1, Len(part)) = part

MainJs == Origin \o << "/static/js/", "main.js" >>
LogoPng == Origin \o << "/static/media/", "logo.png" >>

\* the requests of the pages the worker controls: two assets of the site, a GET
\* and a POST of its API, a map tile of another host, an asset of the same host
\* at another port
WorkerRequests ==
  { [url |-> MainJs, method |-> "GET"],
    [url |-> LogoPng, method |-> "GET"],
    [url |-> Origin \o << "/api/", "occurrences" >>, method |-> "GET"],
    [url |-> Origin \o << "/api/", "chat" >>, method |-> "POST"],
    [url |-> << "https://", "tile.test", "/1/2/3.png" >>, method |-> "GET"],
    [url |-> Origin \o << ":5000", "/static/media/", "logo.png" >>, method |-> "GET"] }

\* the origin of a URL: scheme, host and port
OriginOf(url) ==
  IF Len(url) > 2 /\ url[3] = ":5000" THEN SubSeq(url, 1, 3) ELSE SubSeq(url, 1, 2)

\* the responses of the network to a request: type basic for a request to the
\* worker's origin, cors for another
NetworkResponses(request) ==
  LET type == IF OriginOf(request.url) = Origin THEN "basic" ELSE "cors"
  IN { [status |-> 200, type |-> type, body |-> 1],
       [status |-> 200, type |-> type, body |-> 2],
       [status |-> 404, type |-> type, body |-> 1] }

\* the cache after the install event: of urlsToCache, the one requested here
InstalledCache == { << MainJs, [status |-> 200, type |-> "basic", body |-> 1] >> }

\* caches.match(request)
match(cache, request) ==
  IF request.method = "GET" /\ \E e \in cache : e[1] = request.url
  THEN << (CHOOSE e \in cache : e[1] = request.url)[2] >>
  ELSE <<>>

\* cache.put(request, response)
put(cache, request, response) ==
  IF request.method = "GET"
  THEN { e \in cache : e[1] # request.url } \cup { << request.url, response >> }
  ELSE cache

\* respondWith's promise of event i has settled with response (<<>>: rejected,
\* or resolved with undefined: the page sees a network error)
Respond(s, i, response) ==
  [s EXCEPT !.swAnswer = << [request |-> s.swEvents[i].request, response |-> response] >>]

Finish(s, i) == [s EXCEPT !.swEvents = Without(@, i)]

\* the fetch listener up to its return
onfetch(s, request) ==
  IF ~startsWith(request.url, Origin) THEN s
  ELSE IF includes(request.url, << "/api/" >>)
  THEN [s EXCEPT !.swEvents = Append(@, [request |-> request, kind |-> "api",
                                         stage |-> "network", copy |-> <<>>])]
  ELSE [s EXCEPT !.swEvents = Append(@, [request |-> request, kind |-> "static",
                                         stage |-> "match", copy |-> <<>>])]

\* cache first: caches.match has resolved
onmatch(s, i) ==
  LET response == match(s.swCache, s.swEvents[i].request)
  IN IF response # <<>> THEN Finish(Respond(s, i, response), i)
     ELSE [s EXCEPT !.swEvents[i].stage = "network"]

\* cache first: every response of the network is stored
onfetched_StoreAll(s, i, response) ==
  [Respond(s, i, << response >>) EXCEPT !.swEvents[i].stage = "put",
                                        !.swEvents[i].copy = << response >>]

\* fetch has resolved with response
onfetched(s, i, response) ==
  IF s.swEvents[i].kind = "static" /\ (response.status # 200 \/ response.type # "basic")
  THEN Finish(Respond(s, i, << response >>), i)
  ELSE [Respond(s, i, << response >>) EXCEPT !.swEvents[i].stage = "put",
                                             !.swEvents[i].copy = << response >>]

\* fetch has rejected: network first goes on to caches.match
onfailed(s, i) ==
  IF s.swEvents[i].kind = "api" THEN [s EXCEPT !.swEvents[i].stage = "fallback"]
  ELSE Finish(Respond(s, i, <<>>), i)

\* network first: caches.match of the catch has resolved
onfallback(s, i) == Finish(Respond(s, i, match(s.swCache, s.swEvents[i].request)), i)

\* caches.open has resolved: cache.put of the clone
onopened(s, i) ==
  Finish([s EXCEPT !.swCache = put(@, s.swEvents[i].request, s.swEvents[i].copy[1])], i)

-----------------------------------------------------------------------------
(* The specification *)

StartApp(lim) ==
  /\ occurrences = <<>> /\ facets = {} /\ totalInViewport = 0 /\ filters = {}
  /\ loading = FALSE /\ initialLoading = TRUE
  /\ showExplore = FALSE /\ hasConsented = FALSE
  /\ shakeConsent = FALSE /\ shakeTimers = <<>>
  /\ debounceTimer = <<>> /\ inflight = <<>>
  /\ isPopupOpen = FALSE /\ openPopupInfo = <<>> /\ isAutoPanning = FALSE
  /\ reopenAttempted = FALSE /\ markerRefs = <<>>
  /\ hasInitialized = FALSE /\ userInteractionRef = FALSE
  /\ initTimers = <<>> /\ reopenTimers = <<>> /\ guardTimers = <<>>
  /\ view = 0 /\ gesture = "none" /\ popup = <<>> /\ pendingAutoPan = FALSE
  /\ listening = FALSE
  /\ burst = <<>> /\ did = "none"
  /\ chatbots = [c \in Panels |-> NoChatbot]
  /\ chatRequests = <<>> /\ suggestionRequests = {} /\ fileReaders = <<>>
  /\ cameraRequests = <<>> /\ mediaStreams = <<>> /\ unhandledRejections = 0
  /\ swCache = InstalledCache /\ swEvents = <<>> /\ swAnswer = <<>>
  /\ isChatbotExpanded = FALSE /\ drawerDragOffset = 0 /\ isDragging = FALSE
  /\ touchStartY = <<>> /\ touchStartTime = <<>> /\ touches = 0
  /\ recordsArray = <<>> /\ currentIndex = 0 /\ autoScrollEnabled = TRUE
  /\ autoScrollTimerRef = <<>>
  /\ limits = lim

Start(lim) == StartApp(lim) /\ input = <<>> /\ output = <<>>

\* the limits of a session on the map: the Chatbots are mounted and left alone
Limits ==
  [inflight |-> MaxInFlight, timers |-> MaxTimers, guards |-> MaxTimers,
   view |-> MaxView,
   panels |-> {}, sessionIds |-> {1}, messages |-> 1, chats |-> 0, readers |-> 0,
   cameras |-> 0, streams |-> 0, record |-> FALSE, events |-> 0, touches |-> 0,
   records |-> 0]

MaxMessages == 3
MaxChats == 2
MaxCameras == 2
MaxStreams == 3
MaxEvents == 2
\* records of one location
MaxRecords == 3
\* fingers that can lie on the drawer handle together
MaxTouches == 2

\* the limits of a session in which everything is used
AllLimits ==
  [Limits EXCEPT !.panels = Panels, !.sessionIds = SessionIds, !.messages = MaxMessages,
                 !.chats = MaxChats, !.readers = MaxTimers, !.cameras = MaxCameras,
                 !.streams = MaxStreams, !.events = MaxEvents,
                 !.touches = MaxTouches, !.records = MaxRecords]

Init == Start(AllLimits)

\* the limits of the session: a step that would exceed one is not taken
Within(s) ==
  /\ Len(s.inflight) <= s.limits.inflight
  /\ Len(s.debounceTimer) <= s.limits.timers
  /\ Len(s.initTimers) <= s.limits.timers
  /\ Len(s.reopenTimers) <= s.limits.timers
  /\ Len(s.guardTimers) <= s.limits.guards
  /\ Len(s.shakeTimers) <= s.limits.timers
  /\ \A c \in Panels : Len(s.chatbots[c].messages) <= s.limits.messages
  /\ Len(s.chatRequests) <= s.limits.chats
  /\ Len(s.fileReaders) <= s.limits.readers
  /\ Len(s.cameraRequests) <= s.limits.cameras
  /\ Len(s.mediaStreams) <= s.limits.streams
  /\ Len(s.swEvents) <= s.limits.events

\* a step named e from the current state St to state s; nothing else runs
\* between a popup opening and the start of the pan Leaflet makes for it
Do(e, s) == ~pendingAutoPan /\ Within(s) /\ Set([s EXCEPT !.did = e])

\* a step named e in which data arrives from the server; a session that records
\* keeps the data last received in input
Receive(e, s, data) ==
  /\ ~pendingAutoPan /\ Within(s) /\ SetApp([s EXCEPT !.did = e])
  /\ input' = (IF limits.record THEN << data >> ELSE input)
  /\ output' = output

Due(timers) == timers # <<>> /\ Head(timers).rem = 0
DueAt(timers) == timers # <<>> /\ Head(timers) = 0

ConsentChange ==
  /\ ~showExplore
  /\ \E checked \in BOOLEAN :
       Do("consent", Render(St, handleConsentChange(St, checked), FALSE, FALSE))

\* ids: the session identifiers the Chatbots draw if they mount
StartExploring ==
  /\ ~showExplore
  /\ \E ids \in [Panels -> limits.sessionIds] :
       Do("start", MountChatbots(St, Render(St, handleStartExploring(St), FALSE, FALSE), ids))

NavigateToExplore ==
  \E ids \in [Panels -> limits.sessionIds] :
     Do("explore",
        MountChatbots(St, Render(St, handleNavigateToExplore(St), FALSE, FALSE), ids))

NavigateToHome ==
  Do("home", UnmountChatbots(St, Render(St, handleNavigateToHome(St), FALSE, FALSE)))

\* onFilterChange of MapView is called (by a FilterPanel) with new filters
FilterChange ==
  /\ showExplore
  /\ \E f \in FilterSets :
       Do("filter", Render(St, handleFilterChange(St, f), FALSE, TRUE))

\* the response data to request i arrives
Resolve(i, data) ==
  Do(IF inflight[i].overtaken THEN "stale" ELSE "resolve",
     Render(St, loadViewportDataResolved(St, i, data), TRUE, FALSE))

FetchResolve == \E i \in 1 .. Len(inflight), data \in Responses : Resolve(i, data)

FetchReject ==
  \E i \in 1 .. Len(inflight) :
     Do("reject", Render(St, loadViewportDataRejected(St, i), FALSE, FALSE))

DebounceFire ==
  /\ Due(debounceTimer)
  /\ Do("debounce", Render(St, debounceCallback(St), FALSE, FALSE))

InitTimerFire ==
  /\ Due(initTimers)
  /\ Do("init", initCallback(St))

\* pan: Leaflet pans the map to bring the popup it opened into view
ReopenTimerFire ==
  /\ Due(reopenTimers)
  /\ LET s == reopenCallback(St)
     IN \E pan \in IF s.popup # popup /\ gesture = "none" THEN BOOLEAN ELSE {FALSE} :
          Do("reopen", [s EXCEPT !.pendingAutoPan = pan])

GuardTimerFire ==
  /\ DueAt(guardTimers)
  /\ Do("guard", guardCallback(St))

ShakeTimerFire ==
  /\ DueAt(shakeTimers)
  /\ Do("shake", Render(St, shakeCallback(St), FALSE, FALSE))

\* the user clicks the marker of a group whose popup is not open
MarkerClick ==
  /\ showExplore
  /\ LET groups == groupedOccurrences(occurrences)
     IN \E i \in 1 .. Len(groups) :
          /\ popup # << Marker(groups[i]) >>
          /\ \E pan \in IF gesture = "none" THEN BOOLEAN ELSE {FALSE} :
               Do("click", [openPopup(St, Marker(groups[i])) EXCEPT !.pendingAutoPan = pan])

\* the user closes the popup (its close button, a click on the map or on its marker)
PopupClose ==
  /\ popup # <<>>
  /\ Do("close", closePopup(St))

\* the pan Leaflet starts for a popup it has just opened (auto: on a click,
\* reauto: on the re-open after a reload)
AutoPanStart ==
  /\ pendingAutoPan
  /\ Set(movestart([St EXCEPT !.pendingAutoPan = FALSE,
                              !.gesture = IF did = "reopen" THEN "reauto" ELSE "auto",
                              !.did = "autopan"]))

\* the user starts to drag the map
UserPanStart ==
  /\ showExplore /\ gesture = "none"
  /\ Do("movestart", movestart([St EXCEPT !.gesture = "pan"]))

\* a pan (of the user, or Leaflet's own) ends at viewport v
MoveEnd ==
  /\ gesture \in {"pan", "auto", "reauto"}
  /\ \E v \in 0 .. limits.view :
       Do(IF gesture = "pan" THEN "panend"
          ELSE IF gesture = "auto" THEN "autoend" ELSE "reautoend",
          moveend([St EXCEPT !.gesture = "none", !.view = v]))

\* the user starts to zoom: Leaflet fires zoomstart, then movestart
UserZoomStart ==
  /\ showExplore /\ gesture = "none"
  /\ Do("zoomstart", movestart(zoomstart([St EXCEPT !.gesture = "zoom"])))

\* a zoom ends at viewport v: Leaflet fires zoomend, then moveend
ZoomEnd ==
  /\ gesture = "zoom"
  /\ \E v \in 0 .. limits.view :
       Do("zoomend", moveend(zoomend([St EXCEPT !.gesture = "none", !.view = v])))

Age(timers) == [n \in 1 .. Len(timers) |-> [timers[n] EXCEPT !.rem = @ - 1]]
AgeAt(timers) == [n \in 1 .. Len(timers) |-> timers[n] - 1]

\* 100 ms pass: possible when no timer is due
Tick ==
  /\ ~Due(debounceTimer) /\ ~Due(initTimers) /\ ~Due(reopenTimers)
  /\ ~DueAt(guardTimers) /\ ~DueAt(shakeTimers) /\ ~DueAt(autoScrollTimerRef)
  /\ Do("tick", [St EXCEPT
           !.autoScrollTimerRef = AgeAt(@),
           !.debounceTimer = Age(@), !.initTimers = Age(@), !.reopenTimers = Age(@),
           !.guardTimers = AgeAt(@), !.shakeTimers = AgeAt(@),
           !.burst = IF @ # <<>> /\ @[1].fetches = 0 /\ @[1].age < DebounceDelay
                     THEN << [@[1] EXCEPT !.age = @ + 1] >>
                     ELSE <<>>])

\* the user can reach Chatbot p in this session
Usable(p) == showExplore /\ p \in limits.panels

\* the text input, the upload button and the camera button are disabled
InputDisabled(c) == c.isLoading \/ c.showCamera

\* the send button is disabled
SendDisabled(c) ==
  c.isLoading \/ c.showCamera \/ (trim(c.inputMessage) = <<>> /\ c.selectedImage = <<>>)

\* the suggestion chips are rendered and enabled
ChipsEnabled(c) == Len(c.suggestions) > 0 /\ Len(c.messages) <= 2 /\ ~c.isLoading

\* the user changes the text of the input
InputChange ==
  \E p \in Panels, text \in InputTexts :
     /\ Usable(p) /\ ~InputDisabled(chatbots[p]) /\ text # chatbots[p].inputMessage
     /\ Do("type", [St EXCEPT !.chatbots[p].inputMessage = text])

SendClick ==
  \E p \in Panels :
     /\ Usable(p) /\ ~SendDisabled(chatbots[p])
     /\ Do("send", handleSendMessage(St, p, chatbots[p].inputMessage))

\* handleKeyPress with the Enter key
EnterKey ==
  \E p \in Panels :
     /\ Usable(p) /\ ~InputDisabled(chatbots[p])
     /\ Do("enter", handleSendMessage(St, p, chatbots[p].inputMessage))

SuggestionClick ==
  \E p \in Panels :
     /\ Usable(p) /\ ChipsEnabled(chatbots[p])
     /\ \E n \in 1 .. Len(chatbots[p].suggestions) :
          Do("chip", handleSuggestionClick(St, p, chatbots[p].suggestions[n]))

\* the click on the clear button, and the user's answer to window.confirm
ClearConversation ==
  \E p \in Panels, confirmed \in BOOLEAN :
     /\ Usable(p)
     /\ Do(IF confirmed THEN "clear" ELSE "keep", clearConversation(St, p, confirmed))

\* POST /chat of request i is answered
ChatResolve ==
  \E i \in 1 .. Len(chatRequests), response \in ChatResponses :
     Receive(IF response.success THEN "reply" ELSE "refused",
             handleSendMessageResolved(St, i, response), response.suggestions)

\* POST /chat of request i fails
ChatReject ==
  \E i \in 1 .. Len(chatRequests) : Do("chatreject", handleSendMessageRejected(St, i))

SuggestionsResolve ==
  \E p \in suggestionRequests, data \in SuggestionData :
     /\ Usable(p)
     /\ Receive("suggestions", loadSuggestionsResolved(St, p, data), data.suggestions)

SuggestionsReject ==
  \E p \in suggestionRequests :
     /\ Usable(p)
     /\ Do("nosuggestions", loadSuggestionsRejected(St, p))

\* the file dialog (opened by the upload button or by a suggestion with
\* "upload") closes with a choice
ImageSelect ==
  \E p \in Panels, file \in Files :
     /\ Usable(p)
     /\ \/ ~InputDisabled(chatbots[p])
        \/ /\ ChipsEnabled(chatbots[p])
           /\ \E n \in 1 .. Len(chatbots[p].suggestions) :
                includes(toLowerCase(chatbots[p].suggestions[n]), << "upload" >>)
     /\ Do("file", handleImageSelect(St, p, file))

ReaderLoadEnd ==
  \E i \in 1 .. Len(fileReaders), result \in { <<>>, << FileImage >> } :
     Do("loadend", onloadend(St, i, result))

\* the click on the remove button of the image preview
ClearImageClick ==
  \E p \in Panels :
     /\ Usable(p) /\ chatbots[p].imagePreview # <<>> /\ ~chatbots[p].showCamera
     /\ Do("unimage", clearImage(St, p))

StartCamera ==
  \E p \in Panels :
     /\ Usable(p) /\ ~InputDisabled(chatbots[p])
     /\ Do("camera", startCamera(St, p))

CameraGranted ==
  \E i \in 1 .. Len(cameraRequests) : Do("stream", startCameraResolved(St, i))

CameraDenied ==
  \E i \in 1 .. Len(cameraRequests) : Do("nostream", startCameraRejected(St, i))

CapturePhoto ==
  \E p \in Panels, ready \in BOOLEAN, captured \in BOOLEAN :
     /\ Usable(p) /\ chatbots[p].showCamera
     /\ Do(IF ready /\ captured THEN "capture" ELSE "nocapture",
           capturePhoto(St, p, ready, captured))

\* the click on Cancel in the camera view
CancelCamera ==
  \E p \in Panels :
     /\ Usable(p) /\ chatbots[p].showCamera
     /\ Do("cancel", stopCamera(St, p))

-----------------------------------------------------------------------------
(* RecordPopup: the carousel of the records of one location.  recordsArray    *)
(* holds the array passed as records: its content, and ref, which tells two    *)
(* arrays of one content apart.  autoScrollTimerRef holds the time left of the *)
(* interval that is running.                                                    *)

\* the period of the auto-scroll interval, in steps of 100 ms
AutoScrollDelay == 30

totalRecords(s) == Len(s.recordsArray[1].records)

hasMultipleRecords(s) == totalRecords(s) > 1

\* the effect on [autoScrollEnabled, hasMultipleRecords, totalRecords] after a
\* render that changed one of them (or the first render): the cleanup of the
\* effect before it clears its interval, and a new interval is set
AutoScrollEffect(s) ==
  IF s.autoScrollEnabled /\ hasMultipleRecords(s)
  THEN [s EXCEPT !.autoScrollTimerRef = << AutoScrollDelay >>]
  ELSE [s EXCEPT !.autoScrollTimerRef = <<>>]

\* the effect on [recordsArray], and the render its setters cause
ResetEffect(s) ==
  LET s1 == [s EXCEPT !.currentIndex = 0, !.autoScrollEnabled = TRUE]
  IN IF s1.autoScrollEnabled # s.autoScrollEnabled THEN AutoScrollEffect(s1) ELSE s1

\* the first render of a RecordPopup with the array records, and its effects
MountRecordPopup(s, records) ==
  ResetEffect(AutoScrollEffect([s EXCEPT !.recordsArray = << records >>,
                                         !.currentIndex = 0,
                                         !.autoScrollEnabled = TRUE]))

\* MapView renders its markers with the array records for this location: the
\* key of the <Marker> holds the number of records and the id of the first, so
\* the RecordPopup lives on only if these are unchanged; it is then rendered
\* with the new array, and the effect on [recordsArray] runs
RenderRecordPopup(s, records) ==
  IF s.recordsArray = <<>> THEN MountRecordPopup(s, records)
  ELSE LET old == s.recordsArray[1].records
           new == records.records
       IN IF Len(old) # Len(new) \/ old[1] # new[1]
          THEN MountRecordPopup(s, records)
          ELSE ResetEffect([s EXCEPT !.recordsArray = << records >>])

\* goToPrevious with the remainder of i - 1, which is -1 for index 0
goToPrevious_NoWrap(s) ==
  AutoScrollEffect([s EXCEPT !.autoScrollEnabled = FALSE,
                             !.currentIndex = IF @ = 0 THEN -1 ELSE @ - 1])

goToNext(s) ==
  AutoScrollEffect([s EXCEPT !.autoScrollEnabled = FALSE,
                             !.currentIndex = (@ + 1) % totalRecords(s)])

goToPrevious(s) ==
  AutoScrollEffect([s EXCEPT !.autoScrollEnabled = FALSE,
                             !.currentIndex = (@ - 1 + totalRecords(s)) % totalRecords(s)])

\* the callback of the interval
autoScrollCallback(s) ==
  [s EXCEPT !.currentIndex = (@ + 1) % totalRecords(s),
            !.autoScrollTimerRef = << AutoScrollDelay >>]

\* the record ids of the arrays a location can have
RecordLists == { n \in UNION { [1 .. k -> 1 .. MaxRecords] : k \in 1 .. MaxRecords } :
                   \A i, j \in 1 .. Len(n) : i < j => n[i] < n[j] }

\* MapView has grouped a new occurrence array and renders the marker of the
\* location
PopupRender ==
  \E list \in RecordLists :
     /\ Len(list) <= limits.records
     /\ LET ref == IF recordsArray = <<>> THEN 0 ELSE 1 - recordsArray[1].ref
        IN Do("records", RenderRecordPopup(St, [ref |-> ref, records |-> list]))

\* the click on the button "next", which is there when the location has more
\* than one record
GoToNext ==
  /\ recordsArray # <<>> /\ hasMultipleRecords(St)
  /\ Do("next", goToNext(St))

GoToPrevious ==
  /\ recordsArray # <<>> /\ hasMultipleRecords(St)
  /\ Do("previous", goToPrevious(St))

AutoScrollFire ==
  /\ DueAt(autoScrollTimerRef)
  /\ Do("autoscroll", autoScrollCallback(St))

\* the vertical positions, in pixels, at which a finger can be on the screen
ClientYs == { 0, 300, 340 }

\* the values Date.now() can have, in ms
Clock == { 1000, 1040, 2200 }

\* the click on the drawer handle
ToggleChatbot ==
  /\ showExplore /\ touches = 0
  /\ Do("toggle", Render(St, toggleChatbot(St), FALSE, FALSE))

\* a finger is put on the drawer handle
TouchStart ==
  /\ showExplore /\ touches < limits.touches
  /\ \E clientY \in ClientYs, now \in Clock :
       /\ touchStartTime # <<>> => now >= touchStartTime[1]
       /\ Do("touchstart", Render(St, handleTouchStart([St EXCEPT !.touches = @ + 1],
                                                       clientY, now), FALSE, FALSE))

\* a finger moves on the drawer handle
TouchMove ==
  /\ showExplore /\ touches > 0
  /\ \E currentY \in ClientYs :
       Do("touchmove", Render(St, handleTouchMove(St, currentY), FALSE, FALSE))

\* a finger is lifted from the drawer handle
TouchEnd ==
  /\ showExplore /\ touches > 0
  /\ \E touchEndY \in ClientYs, now \in Clock :
       /\ touchStartTime # <<>> => now >= touchStartTime[1]
       /\ Do("touchend", Render(St, handleTouchEnd([St EXCEPT !.touches = @ - 1],
                                                   touchEndY, now), FALSE, FALSE))

\* a page the worker controls makes a request
FetchEvent ==
  \E request \in WorkerRequests :
     /\ limits.events > 0
     /\ Do(IF startsWith(request.url, Origin) THEN "fetch" ELSE "passthrough",
           onfetch(St, request))

WorkerMatch ==
  \E i \in 1 .. Len(swEvents) :
     /\ swEvents[i].stage = "match"
     /\ Do(IF match(swCache, swEvents[i].request) # <<>> THEN "hit" ELSE "miss", onmatch(St, i))

WorkerFetched ==
  \E i \in 1 .. Len(swEvents) :
     /\ swEvents[i].stage = "network"
     /\ \E response \in NetworkResponses(swEvents[i].request) :
          Do("fetched", onfetched(St, i, response))

WorkerFailed ==
  \E i \in 1 .. Len(swEvents) :
     /\ swEvents[i].stage = "network"
     /\ Do("failed", onfailed(St, i))

WorkerFallback ==
  \E i \in 1 .. Len(swEvents) :
     /\ swEvents[i].stage = "fallback"
     /\ Do("fallback", onfallback(St, i))

WorkerPut ==
  \E i \in 1 .. Len(swEvents) :
     /\ swEvents[i].stage = "put"
     /\ Do("put", onopened(St, i))

Next ==
  \/ ConsentChange \/ StartExploring \/ NavigateToExplore \/ NavigateToHome
  \/ FilterChange \/ FetchResolve \/ FetchReject
  \/ DebounceFire \/ InitTimerFire \/ ReopenTimerFire \/ GuardTimerFire
  \/ ShakeTimerFire
  \/ MarkerClick \/ PopupClose \/ AutoPanStart
  \/ UserPanStart \/ MoveEnd \/ UserZoomStart \/ ZoomEnd
  \/ Tick
  \/ InputChange \/ SendClick \/ EnterKey \/ SuggestionClick \/ ClearConversation
  \/ ChatResolve \/ ChatReject \/ SuggestionsResolve \/ SuggestionsReject
  \/ ImageSelect \/ ReaderLoadEnd \/ ClearImageClick
  \/ StartCamera \/ CameraGranted \/ CameraDenied \/ CapturePhoto \/ CancelCamera
  \/ FetchEvent \/ WorkerMatch \/ WorkerFetched \/ WorkerFailed \/ WorkerFallback
  \/ WorkerPut
  \/ ToggleChatbot \/ TouchStart \/ TouchMove \/ TouchEnd
  \/ PopupRender \/ GoToNext \/ GoToPrevious \/ AutoScrollFire

Spec == Init /\ [][Next]_vars

-----------------------------------------------------------------------------
(* Sessions: the specification restricted to what the user does in them *)

\* a session of panning and zooming: no marker is clicked, the filters stay,
\* the map page is not left
NextViewport ==
  \/ ConsentChange \/ StartExploring
  \/ FetchResolve \/ FetchReject
  \/ DebounceFire \/ InitTimerFire
  \/ UserPanStart \/ MoveEnd \/ UserZoomStart \/ ZoomEnd
  \/ Tick

SpecViewport == Start(Limits) /\ [][NextViewport]_vars

\* a session of panning, zooming and filtering in one viewport, one request in
\* flight at a time
NextFilter ==
  \/ ConsentChange \/ StartExploring
  \/ FilterChange \/ FetchResolve \/ FetchReject
  \/ DebounceFire \/ InitTimerFire
  \/ UserPanStart \/ MoveEnd \/ UserZoomStart \/ ZoomEnd
  \/ Tick

SpecFilter ==
  Start([Limits EXCEPT !.inflight = MaxInFlight - 1, !.timers = MaxTimers - 1,
                       !.view = MaxView - 1])
  /\ [][NextFilter]_vars

\* a session with popups around one viewport, one request in flight at a time:
\* the filters stay, the map page is not left
NextPopup ==
  \/ ConsentChange \/ StartExploring
  \/ FetchResolve \/ FetchReject
  \/ DebounceFire \/ InitTimerFire \/ ReopenTimerFire \/ GuardTimerFire
  \/ MarkerClick \/ PopupClose \/ AutoPanStart
  \/ UserPanStart \/ MoveEnd \/ UserZoomStart \/ ZoomEnd
  \/ Tick

SpecPopup ==
  Start([Limits EXCEPT !.inflight = MaxInFlight - 1, !.guards = MaxTimers - 1,
                       !.view = MaxView - 1])
  /\ [][NextPopup]_vars

\* a session of popups opened and closed in quick succession at one viewport:
\* two guard timers can be pending; the map is not dragged or zoomed
NextGuard ==
  \/ ConsentChange \/ StartExploring
  \/ FetchResolve \/ FetchReject
  \/ DebounceFire \/ InitTimerFire \/ ReopenTimerFire \/ GuardTimerFire
  \/ MarkerClick \/ PopupClose \/ AutoPanStart \/ MoveEnd
  \/ Tick

SpecGuard ==
  Start([Limits EXCEPT !.inflight = MaxInFlight - 1, !.timers = MaxTimers - 1,
                       !.view = MaxView - 1])
  /\ [][NextGuard]_vars

\* a session with the chat drawer of the mobile layout: the map starts up (its
\* request fails, its data play no part), the user drags the handle of the
\* drawer and taps it
NextDrawer ==
  \/ ConsentChange \/ StartExploring
  \/ FetchReject \/ DebounceFire \/ InitTimerFire \/ Tick
  \/ ToggleChatbot \/ TouchStart \/ TouchMove \/ TouchEnd

SpecDrawer ==
  Start([Limits EXCEPT !.inflight = MaxInFlight - 1, !.timers = MaxTimers - 1,
                       !.view = MaxView - 1, !.touches = MaxTouches])
  /\ [][NextDrawer]_vars

\* a session of the consent: the user ticks and unticks the box, asks for the map
\* by the button and by the header, and goes back to the landing page; the
\* requests of the map fail (its data play no part)
NextConsent ==
  \/ ConsentChange \/ StartExploring \/ NavigateToExplore \/ NavigateToHome
  \/ ShakeTimerFire
  \/ FetchReject \/ DebounceFire \/ InitTimerFire \/ Tick

SpecConsent ==
  Start([Limits EXCEPT !.inflight = MaxInFlight - 1, !.view = MaxView - 1])
  /\ [][NextConsent]_vars

\* a session with the RecordPopup of one location taken alone: its records
\* arrive and are replaced, the user pages through them, time passes
NextCarousel == PopupRender \/ GoToNext \/ GoToPrevious \/ AutoScrollFire \/ Tick

SpecCarousel == Start([Limits EXCEPT !.records = MaxRecords]) /\ [][NextCarousel]_vars

\* a session of visits to the map page: the user opens and closes popups, goes
\* back to the landing page and returns; the map is not dragged or zoomed
NextRevisit ==
  \/ ConsentChange \/ StartExploring \/ NavigateToHome
  \/ FetchResolve \/ FetchReject
  \/ DebounceFire \/ InitTimerFire \/ ReopenTimerFire \/ GuardTimerFire
  \/ MarkerClick \/ PopupClose \/ AutoPanStart \/ MoveEnd
  \/ Tick

SpecRevisit ==
  Start([Limits EXCEPT !.inflight = MaxInFlight - 1, !.timers = MaxTimers - 1,
                       !.guards = MaxTimers - 1, !.view = MaxView - 1])
  /\ [][NextRevisit]_vars

\* a session with the Chatbot of the side panel: the user types, sends, picks
\* images and suggestions, clears the conversation, leaves the page and returns
NextChat ==
  \/ ConsentChange \/ StartExploring \/ NavigateToHome
  \/ InputChange \/ SendClick \/ EnterKey \/ SuggestionClick \/ ClearConversation
  \/ ChatResolve \/ ChatReject \/ SuggestionsResolve \/ SuggestionsReject
  \/ ImageSelect \/ ReaderLoadEnd \/ ClearImageClick

SpecChat ==
  Start([Limits EXCEPT !.panels = {"desktop"}, !.messages = MaxMessages,
                       !.chats = MaxChats - 1, !.readers = MaxTimers - 1])
  /\ [][NextChat]_vars

\* a session with both Chatbots and the identifiers they draw: the user sends
\* texts in either panel and clears
NextSessions ==
  \/ ConsentChange \/ StartExploring
  \/ InputChange \/ SendClick \/ ClearConversation
  \/ ChatResolve \/ ChatReject

SpecSessions ==
  Start([Limits EXCEPT !.panels = Panels, !.sessionIds = SessionIds,
                       !.messages = MaxMessages - 1, !.chats = MaxChats])
  /\ [][NextSessions]_vars

\* a session of sends in the side-panel Chatbot, by the button, the Enter key and
\* the chips, with room for two requests in flight; the user clears the
\* conversation now and then
NextSends ==
  \/ ConsentChange \/ StartExploring
  \/ InputChange \/ SendClick \/ EnterKey \/ SuggestionClick \/ ClearConversation
  \/ ChatResolve \/ ChatReject \/ SuggestionsResolve \/ SuggestionsReject

SpecSends ==
  Start([Limits EXCEPT !.panels = {"desktop"}, !.messages = MaxMessages + 1,
                       !.chats = MaxChats])
  /\ [][NextSends]_vars

\* a session with the suggestions of the side-panel Chatbot: the lists received
\* are recorded; the user sends texts and clicks chips, leaves the page and returns
NextSuggest ==
  \/ ConsentChange \/ StartExploring \/ NavigateToHome
  \/ InputChange \/ SendClick \/ SuggestionClick
  \/ ChatResolve \/ ChatReject \/ SuggestionsResolve \/ SuggestionsReject

SpecSuggest ==
  Start([Limits EXCEPT !.panels = {"desktop"}, !.messages = MaxMessages,
                       !.chats = MaxChats - 1, !.record = TRUE])
  /\ [][NextSuggest]_vars

\* a session with the camera of the side-panel Chatbot: the user opens it,
\* captures or cancels, leaves the page and returns
NextCamera ==
  \/ ConsentChange \/ StartExploring \/ NavigateToHome
  \/ StartCamera \/ CameraGranted \/ CameraDenied \/ CapturePhoto \/ CancelCamera

SpecCamera ==
  Start([Limits EXCEPT !.panels = {"desktop"}, !.cameras = MaxCameras,
                       !.streams = MaxStreams])
  /\ [][NextCamera]_vars

\* the service worker at work for the pages it controls
NextWorker ==
  \/ FetchEvent \/ WorkerMatch \/ WorkerFetched \/ WorkerFailed \/ WorkerFallback
  \/ WorkerPut

SpecWorker == Start([Limits EXCEPT !.events = MaxEvents]) /\ [][NextWorker]_vars

-----------------------------------------------------------------------------
(* The Occurrence Grouper taken alone *)


\* coordinates in units of 1e-7 degree: two latitudes of one 6-decimal bucket,
\* two that round to -0.000000 and 0.000000; two longitudes of neighbouring buckets
GroupLatitudes == { -338688001, -338688004, -4, 4 }
GroupLongitudes == { 1512093002, 1512093006 }

\* the occurrence arrays of up to MaxRecords records with different identifiers
OccurrenceArrays ==
  LET Ids == 1 .. MaxRecords
      Records == { Rec(i, la, lo) : i \in Ids, la \in GroupLatitudes, lo \in GroupLongitudes }
  IN UNION { { a \in [1 .. n -> Records] :
                 \A x, y \in 1 .. n : x # y => a[x].id # a[y].id } : n \in 0 .. MaxRecords }

\* the records of the groups, group after group
RECURSIVE Flatten(_)
Flatten(groups) ==
  IF groups = <<>> THEN <<>> ELSE Head(groups).records \o Flatten(Tail(groups))

\* MapView renders with the occurrence array input
Group ==
  /\ output = <<>>
  /\ output' = << groupedOccurrences(input) >>
  /\ input' = input
  /\ SetApp([St EXCEPT !.did = "group"])

\* the records of the groups come back as the occurrence array of a later render
Regroup ==
  /\ output # <<>>
  /\ output' = << groupedOccurrences(Flatten(output[1])) >>
  /\ input' = input
  /\ SetApp([St EXCEPT !.did = "regroup"])

NextGroup == Group \/ Regroup

SpecGroup ==
  /\ StartApp(Limits) /\ input \in OccurrenceArrays /\ output = <<>>
  /\ [][NextGroup]_vars

-----------------------------------------------------------------------------
(* The URL scanner of the message formatter taken alone.  In a text "http://"  *)
(* and "https://" are pieces; every other piece is one character.              *)

Schemes == { "http://", "https://" }

\* \s of the regular expression
IsRegexSpace(ch) == IsWhiteSpace(ch) \/ ch = "\f"

\* the last index of the run of non-space pieces that begins at k
RECURSIVE RunEnd(_, _)
RunEnd(text, k) ==
  IF k < Len(text) /\ ~IsRegexSpace(text[k + 1]) THEN RunEnd(text, k + 1) ELSE k

\* text.matchAll(/https?:\/\/[^\s]+/g): the indices of the matches at or after k
RECURSIVE MatchStarts(_, _)
MatchStarts(text, k) ==
  IF k > Len(text) THEN <<>>
  ELSE IF text[k] \in Schemes /\ k < Len(text) /\ ~IsRegexSpace(text[k + 1])
  THEN << k >> \o MatchStarts(text, RunEnd(text, k + 1) + 1)
  ELSE MatchStarts(text, k + 1)

Quote == << "%", "2", "2" >>

\* a scan that takes %22 for three ordinary characters
RECURSIVE ScanUrl_NoQuotes(_, _, _)
ScanUrl_NoQuotes(text, i, quoteCount) ==
  IF i > Len(text) THEN i
  ELSE IF text[i] \in { " ", "\n", "\t", "\r" } THEN i
  ELSE IF text[i] \in { ")", "\"", "'", "<", ">" } THEN i
  ELSE ScanUrl_NoQuotes(text, i + 1, quoteCount)

\* the while loop of parseUrlsWithQuotedParams from index i on: the index at
\* which the URL ends (the length of the text plus one when it runs to the end)
RECURSIVE ScanUrl(_, _, _)
ScanUrl(text, i, quoteCount) ==
  IF i > Len(text) THEN i
  ELSE IF i + 2 <= Len(text) /\ SubSeq(text, i, i + 2) = Quote
  THEN ScanUrl(text, i + 3, quoteCount + 1)
  ELSE IF quoteCount % 2 = 1 THEN ScanUrl(text, i + 1, quoteCount)
  ELSE IF text[i] \in { " ", "\n", "\t", "\r" } THEN i
  ELSE IF text[i] \in { ")", "\"", "'", "<", ">" } THEN i
  ELSE ScanUrl(text, i + 1, quoteCount)

RECURSIVE StripPunctuation(_)
StripPunctuation(url) ==
  IF url # <<>> /\ url[Len(url)] \in { ".", ",", ";", "!", "?" }
  THEN StripPunctuation(SubSeq(url, 1, Len(url) - 1))
  ELSE url

\* cleanUrl
CleanUrl(url) == IF includes(url, << "?" >>) THEN url ELSE StripPunctuation(url)

\* the for loop over the matches that begin at starts; currentPos is the index
\* of the first piece not yet put into result
RECURSIVE ParseMatches(_, _, _, _)
ParseMatches(text, starts, currentPos, result) ==
  IF starts = <<>>
  THEN result \o (IF currentPos <= Len(text)
                  THEN << [type |-> "text", content |-> SubSeq(text, currentPos, Len(text))] >>
                  ELSE <<>>)
  ELSE LET startIndex == Head(starts)
           before == IF startIndex > currentPos
                     THEN << [type |-> "text",
                              content |-> SubSeq(text, currentPos, startIndex - 1)] >>
                     ELSE <<>>
           i == ScanUrl(text, startIndex, 0)
           url == SubSeq(text, startIndex, i - 1)
       IN ParseMatches(text, Tail(starts), i,
                       result \o before \o << [type |-> "url", content |-> CleanUrl(url)] >>)

parseUrlsWithQuotedParams(text) ==
  LET starts == MatchStarts(text, 1)
  IN IF starts = <<>> THEN << [type |-> "text", content |-> text] >>
     ELSE ParseMatches(text, starts, 1, <<>>)

MaxWords == 5

\* the words the texts are made of
Words ==
  { << "https://" >>, Quote, << "%", "2" >>, << " " >>, << "a" >>, << ")" >>,
    << "." >>, << "?" >> }

RECURSIVE Concat(_)
Concat(words) == IF words = <<>> THEN <<>> ELSE Head(words) \o Concat(Tail(words))

\* 'See https://x.test/q?n=%22a b%22 now'
ExampleText ==
  << "S", "e", "e", " ", "https://", "x", ".", "t", "e", "s", "t", "/", "q", "?", "n", "=", "%", "2", "2", "a", " ", "b", "%", "2", "2", " ", "n", "o", "w" >>

\* the message texts: up to MaxWords words, and the example
ParseTexts ==
  { Concat(w) : w \in UNION { [1 .. n -> Words] : n \in 0 .. MaxWords } }
  \cup { ExampleText }

\* formatMessageText calls the scanner with the text input
Parse ==
  /\ output = <<>>
  /\ output' = << parseUrlsWithQuotedParams(input) >>
  /\ input' = input
  /\ SetApp([St EXCEPT !.did = "parse"])

NextParse == Parse

SpecParse ==
  /\ StartApp(Limits) /\ input \in ParseTexts /\ output = <<>>
  /\ [][NextParse]_vars

-----------------------------------------------------------------------------
(* sendChatMessage of api.js taken alone *)

\* the texts of messages
PayloadTexts == InputTexts \cup { << "a", ",", "b" >> }

\* the image data: null, '', base64 data, data URLs of base64 data (of no data)
ImageData ==
  { <<>>, << <<>> >>, << << "iVBORw0KGgo" >> >>, << FileImage >>, << CameraImage >>,
    << << "data:image/png;base64", "," >> >> }

\* the arguments of a call
Calls ==
  [message : PayloadTexts, context : { [session_id |-> id] : id \in { <<>> } \cup
                                         { << n >> : n \in SessionIds } },
   imageData : ImageData]

\* the call: output holds the payloads posted by it
Post ==
  /\ output = <<>>
  /\ output' = << sendChatMessage(input.message, input.context, input.imageData) >>
  /\ input' = input
  /\ SetApp([St EXCEPT !.did = "post"])

NextPayload == Post

SpecPayload ==
  /\ StartApp(Limits) /\ input \in Calls /\ output = <<>>
  /\ [][NextPayload]_vars

-----------------------------------------------------------------------------
(* Debounced Fetch Controller: properties *)

BoundsOf(params) ==
  [north |-> params.north, south |-> params.south,
   east |-> params.east, west |-> params.west]

\* the request the last step issued
Issued == inflight'[Len(inflight')]

\* C1: bounds-change events that follow one another by less than 500 ms cause
\* exactly one fetch: while no fetch has answered the events, exactly one timer
\* is pending, due 500 ms after the last event and holding that event's bounds;
\* the timer's firing issues one fetch with those bounds, 500 ms after the last
\* event, and leaves no timer; a bounds-change event itself issues no fetch
C1_OneFetchPerBurst ==
  /\ [](burst # <<>> /\ burst[1].fetches = 0
        => /\ Len(debounceTimer) = 1
           /\ debounceTimer[1].rem = DebounceDelay - burst[1].age
           /\ debounceTimer[1].bounds = burst[1].bounds)
  /\ [][DebounceFire
         => /\ burst # <<>> /\ burst[1].fetches = 0 /\ burst[1].age = DebounceDelay
            /\ Len(inflight') = Len(inflight) + 1
            /\ BoundsOf(Issued.params) = burst[1].bounds
            /\ debounceTimer' = <<>>]_vars
  /\ [][burst' # <<>> /\ burst'[1].age = 0 /\ burst' # burst
         => inflight' = inflight]_vars

\* C1 witness: a burst of several events has just been answered by its fetch,
\* which carries the bounds of a viewport the map was moved to
C1_Witness ==
  /\ did = "debounce"
  /\ burst # <<>> /\ burst[1].many /\ burst[1].fetches = 1
  /\ inflight # <<>> /\ BoundsOf(inflight[Len(inflight)].params) = getVisibleBounds(MaxView)

Displayed == << occurrences, facets, totalInViewport >>

\* C2: fetches are neither cancelled nor sequenced: a request leaves the set of
\* requests in flight only when it settles; when a response arrives to a request
\* that was issued before one whose response has arrived already, its
\* occurrences, facets and total are displayed all the same; and what is
\* displayed changes only when a response arrives
C2_StaleOverwrites ==
  /\ [][inflight' # inflight /\ Len(inflight') <= Len(inflight)
         => did' \in {"resolve", "stale", "reject"}]_vars
  /\ [][\A i \in { n \in 1 .. Len(inflight) : inflight[n].overtaken },
            data \in Responses :
           Resolve(i, data)
           => /\ occurrences' = OrElse(data.occurrences, <<>>)
              /\ facets' = OrElse(data.facets, {})
              /\ totalInViewport' = OrElse(data.totalRecords, 0)]_vars
  /\ [][Displayed' # Displayed => did' \in {"resolve", "stale"}]_vars

\* C2 witness: the response to an overtaken request has just arrived and its
\* occurrences are displayed
C2_Witness == did = "stale" /\ occurrences # <<>>

\* C8 as stated: the timer of the init effect never fires (to emit the initial
\* bounds) once hasInitialized is set
C8_InitEmitsOnce == [][InitTimerFire => ~hasInitialized]_vars

C10_FailureKeepsData ==
  [][FetchReject
     => /\ Displayed' = Displayed
        /\ Len(inflight') = Len(inflight) - 1
        /\ debounceTimer' = debounceTimer
        /\ ~loading']_vars

\* C10 witness: a fetch has just failed while occurrences were displayed
C10_Witness == did = "reject" /\ occurrences # <<>> /\ ~loading

-----------------------------------------------------------------------------
(* Popup Lifecycle Manager and Bounds Tracker: properties *)

\* the last step called onBoundsChange with the visible bounds
Emitted ==
  /\ debounceTimer' = << DebounceTimeout(getVisibleBounds(view'), TRUE, Closure(St)) >>
  /\ burst' # <<>> /\ burst'[1].age = 0 /\ burst'[1].fetches = 0

\* the last step neither called onBoundsChange nor issued a fetch
Silent == debounceTimer' = debounceTimer /\ burst' = burst /\ inflight' = inflight

PopupGone == popup' = <<>> /\ ~isPopupOpen' /\ openPopupInfo' = <<>>

\* C3 as stated: when data arrive while a popup is open with stored key K and
\* ids S, then the stored state is kept and a re-open of the marker at K is
\* pending if the new group at K has an id of S, and otherwise the stored state
\* is discarded and the popup is closed
C3_ReloadReanchors ==
  [][FetchResolve /\ popup # <<>> /\ openPopupInfo # <<>>
     => LET info == openPopupInfo[1]
            key == << info.lat, info.lng >>
            groups == groupedOccurrences(occurrences')
            i == IndexOfKey(groups, key)
        IN IF i # 0 /\ SeqToSet(RecordIds(groups[i])) \cap SeqToSet(info.recordIds) # {}
           THEN /\ openPopupInfo' = openPopupInfo
                /\ \E n \in 1 .. Len(reopenTimers') :
                      /\ reopenTimers'[n].alive
                      /\ KeyOf(reopenTimers'[n].marker.latitude,
                               reopenTimers'[n].marker.longitude) = key
           ELSE PopupGone]_vars

UserPanEnd == MoveEnd /\ gesture = "pan"

\* C4 as stated: a pan or zoom the user starts while a popup is open closes it
\* at once, and the moveend / zoomend that ends a pan or zoom of the user emits
C4_UserGestureCloses ==
  /\ [][(UserPanStart \/ UserZoomStart) /\ popup # <<>> => PopupGone]_vars
  /\ [][UserPanEnd \/ ZoomEnd => Emitted]_vars

\* C4 amended: a zoom the user starts while the popup-open flag is set closes
\* the popup at once; so does a pan, unless the guard flag of the 600 ms after
\* the opening is set: then the popup stays open and no interaction is flagged;
\* after the popup was closed so, the moveend / zoomend that ends the pan or
\* zoom emits
C4_UserGestureClosesOutsideGuard ==
  /\ [][UserZoomStart /\ isPopupOpen => PopupGone /\ userInteractionRef']_vars
  /\ [][UserPanStart /\ isPopupOpen /\ ~isAutoPanning
         => PopupGone /\ userInteractionRef']_vars
  /\ [][UserPanStart /\ isPopupOpen /\ isAutoPanning
         => popup' = popup /\ isPopupOpen' /\ openPopupInfo' = openPopupInfo
            /\ ~userInteractionRef']_vars
  /\ [][(UserPanEnd \/ ZoomEnd) /\ userInteractionRef => Emitted]_vars

\* C4 witness: the user has just started a zoom within the guard time of an
\* open popup, which closed
C4_Witness ==
  did = "zoomstart" /\ userInteractionRef /\ guardTimers # <<>> /\ popup = <<>>

C6_SilentWhilePopupOpen ==
  [][MoveEnd \/ ZoomEnd
     => /\ ~userInteractionRef'
        /\ (isPopupOpen /\ ~userInteractionRef => Silent)]_vars

\* C6 witness: a moveend has just happened with a popup open and nothing emitted
C6_Witness ==
  did = "panend" /\ popup # <<>> /\ ~userInteractionRef
  /\ (burst = <<>> \/ burst[1].age > 0)

\* C7 as stated: every moveend and every zoomend emits the visible bounds, and
\* issues no fetch
C7_EveryEndEmits == [][MoveEnd \/ ZoomEnd => Emitted /\ inflight' = inflight]_vars

\* C7 amended: a moveend or zoomend emits the visible bounds if no popup is
\* flagged open or an interaction of the user is flagged, and otherwise emits
\* nothing; it issues no fetch
C7_EndEmitsUnlessPopupOpen ==
  [][MoveEnd \/ ZoomEnd
     => /\ inflight' = inflight
        /\ IF ~isPopupOpen \/ userInteractionRef THEN Emitted ELSE Silent]_vars

\* C7 witness: a zoomend has just emitted although a popup is open, the user's
\* interaction being flagged
C7_Witness ==
  did = "zoomend" /\ isPopupOpen /\ burst # <<>> /\ burst[1].age = 0

-----------------------------------------------------------------------------
(* Popup Lifecycle Manager: what an opening popup stores *)

\* the identifiers of the records of occ that lie at key, in the order of occ
IdsAtKey(occ, key) ==
  LET AtKey(r) == KeyOf(r.latitude, r.longitude) = key
      at == SelectSeq(occ, AtKey)
  IN [n \in 1 .. Len(at) |-> at[n].id]

\* a popup has come onto the map in this step (popupopen has fired on its marker)
PopupOpened == popup' # <<>> /\ popup' # popup

\* C11: when a popup opens on a marker, the stored popup state becomes the
\* 6-decimal coordinate key of the marker with the identifiers of all the records
\* of that key in the current occurrence array, and the popup-open flag becomes
\* true
C11_PopupOpenStores ==
  [][PopupOpened =>
       /\ isPopupOpen'
       /\ openPopupInfo' =
            << [lat |-> toFixed6(popup'[1].latitude),
                lng |-> toFixed6(popup'[1].longitude),
                recordIds |-> IdsAtKey(occurrences',
                                       KeyOf(popup'[1].latitude, popup'[1].longitude))] >>]_vars

-----------------------------------------------------------------------------
(* Occurrence Grouper: properties *)

RecordKey(r) == KeyOf(r.latitude, r.longitude)

\* the places (group, position) at which record r stands in groups
PlacesOf(groups, r) ==
  { p \in (1 .. Len(groups)) \X (1 .. Len(input)) :
      p[2] <= Len(groups[p[1]].records) /\ groups[p[1]].records[p[2]] = r }

\* the records of occ that have key, in the order of occ
RecordsAtKey(occ, key) ==
  LET AtKey(r) == RecordKey(r) = key IN SelectSeq(occ, AtKey)

\* C12: grouping partitions the occurrence array by the 6-decimal key: every
\* record is in exactly one group, two records are in one group if and only if
\* their keys are equal, no group is empty, every key has exactly one group, and
\* the records of a group stand in their input order
C12_GroupingPartitions ==
  did = "group" =>
    LET groups == output[1]
        GroupOf(r) == CHOOSE i \in 1 .. Len(groups) : PlacesOf(groups, r) \cap ({i} \X Nat) # {}
    IN /\ \A n \in 1 .. Len(input) : Cardinality(PlacesOf(groups, input[n])) = 1
       /\ \A i \in 1 .. Len(groups) :
            /\ groups[i].records # <<>>
            /\ SeqToSet(groups[i].records) \subseteq SeqToSet(input)
            /\ groups[i].records = RecordsAtKey(input, groups[i].key)
            /\ \A j \in 1 .. Len(groups) : groups[i].key = groups[j].key => i = j
       /\ \A n, m \in 1 .. Len(input) :
            GroupOf(input[n]) = GroupOf(input[m]) <=> RecordKey(input[n]) = RecordKey(input[m])
       /\ { groups[i].key : i \in 1 .. Len(groups) }
            = { RecordKey(input[n]) : n \in 1 .. Len(input) }

\* three records were grouped: the first and the last share a key but not their
\* coordinates, the one between them has another key
C12_Witness ==
  /\ did = "group" /\ Len(input) = 3 /\ Len(output[1]) = 2
  /\ RecordKey(input[1]) = RecordKey(input[3]) /\ input[1].latitude # input[3].latitude
  /\ Len(output[1][1].records) = 2

\* C13: grouping is idempotent: grouping the records of the groups, taken group
\* after group, gives the same groups again (keys, record lists, coordinates)
C13_GroupingIdempotent == [][did' = "regroup" => output' = output]_vars

\* the groups were grouped again, and their records in group order are not the
\* occurrence array they came from
C13_Witness ==
  /\ did = "regroup" /\ Flatten(output[1]) # input
  /\ \E i \in 1 .. Len(output[1]) :
       /\ Len(output[1][i].records) = 2
       /\ output[1][i].records[1].latitude # output[1][i].records[2].latitude

-----------------------------------------------------------------------------
(* Chat Session Manager: properties *)

\* the last step called handleSendMessage (send button, Enter key, suggestion)
SendAttempt == did' \in { "send", "enter", "chip" }

Blank(text) == trim(text) = <<>>

Last(q) == q[Len(q)]

\* the requests in flight of the Chatbot now mounted in panel p
RequestsOf(requests, p) ==
  LET Of(r) == r.panel = p /\ ~r.orphan IN SelectSeq(requests, Of)

\* C14: a send with an empty or all-blank text and no image selected does
\* nothing: no request is issued, the transcript, the input text, the selected
\* image and the loading flag stay.  (The Enter key sends the input text; when a
\* send has changed a Chatbot, the message it added is not blank or an image was
\* selected.)
C14_BlankSendIsNoOp ==
  [][\A p \in Panels :
       /\ did' = "enter" /\ Usable(p) /\ ~InputDisabled(chatbots[p])
          /\ Blank(chatbots[p].inputMessage) /\ chatbots[p].selectedImage = <<>>
          => /\ chatbots'[p] = chatbots[p]
             /\ RequestsOf(chatRequests', p) = RequestsOf(chatRequests, p)
       /\ SendAttempt
          /\ \/ chatbots'[p] # chatbots[p]
             \/ RequestsOf(chatRequests', p) # RequestsOf(chatRequests, p)
          => ~Blank(Last(chatbots'[p].messages).text) \/ chatbots[p].selectedImage # <<>>]_vars

\* Enter was pressed on an input of blanks with no image selected
C14_Witness ==
  /\ did = "enter" /\ chatbots["desktop"].inputMessage = << " ", " " >>
  /\ chatbots["desktop"].selectedImage = <<>> /\ ~chatbots["desktop"].isLoading

FallbackMessage == [type |-> "assistant", text |-> FallbackText, image |-> <<>>]

\* the last step settled chat request i, which had failed
ChatFailed(i) ==
  /\ did' \in { "refused", "chatreject" }
  /\ i \in 1 .. Len(chatRequests) /\ chatRequests' = Without(chatRequests, i)

IsPrefix(q, r) == Len(q) <= Len(r) /\ SubSeq(r, 1, Len(q)) = q

\* C16: the transcript of a Chatbot is append-only as long as the Chatbot lives:
\* every step other than a confirmed clearConversation keeps the messages and
\* their order and at most appends; a declined clearConversation changes nothing,
\* a confirmed one leaves the single message "Conversation cleared ..."
C16_TranscriptAppendOnly ==
  [][showExplore /\ showExplore' =>
       \A p \in Panels :
          /\ did' # "clear" => IsPrefix(chatbots[p].messages, chatbots'[p].messages)
          /\ did' = "keep" => chatbots'[p].messages = chatbots[p].messages
          /\ did' = "clear" =>
               \/ chatbots'[p].messages = chatbots[p].messages
               \/ chatbots'[p].messages =
                    << [type |-> "assistant", text |-> ClearedText, image |-> <<>>] >>]_vars

\* the user has declined to clear a transcript of three messages
C16_Witness == did = "keep" /\ Len(chatbots["desktop"].messages) = 3

\* C17: one session identifier per page load: the chat requests of a page load
\* all carry the same identifier, and clearConversation keeps the identifier
C17_OneSessionIdPerPageLoad ==
  [][/\ \A i, j \in 1 .. Len(chatRequests') :
          chatRequests'[i].payload.session_id = chatRequests'[j].payload.session_id
     /\ did' = "clear" => \A p \in Panels : chatbots'[p].sessionId = chatbots[p].sessionId]_vars

\* C18: from the start of a send until its request settles the loading flag of
\* the Chatbot is true, and the send button, the upload and camera buttons, the
\* text input and the suggestion chips are disabled; once the request has
\* settled the flag is false: the flag is true exactly while a request of the
\* Chatbot is in flight
C18_LoadingWhileInFlight ==
  showExplore =>
    \A p \in Panels :
       LET c == chatbots[p]
       IN /\ c.isLoading <=> RequestsOf(chatRequests, p) # <<>>
          /\ c.isLoading => SendDisabled(c) /\ InputDisabled(c) /\ ~ChipsEnabled(c)

\* a reply has arrived and the Chatbot is ready for the next send
C18_Witness ==
  /\ did = "reply" /\ ~chatbots["desktop"].isLoading
  /\ Len(chatbots["desktop"].messages) = 3 /\ chatbots["desktop"].messages[2].type = "user"

\* no track has been stopped twice
NeverStoppedTwice == \A n \in 1 .. Len(mediaStreams) : mediaStreams[n] <= 1

\* C19: in every camera open/close cycle (ended by cancel, by a capture, or by
\* the Chatbot leaving the page) each track of the stream acquired is stopped
\* exactly once: no track is stopped twice, and when no camera view is open every
\* stream acquired has had its tracks stopped
C19_TracksStoppedOnce ==
  /\ NeverStoppedTwice
  /\ (\A p \in Panels : ~chatbots[p].showCamera)
       => \A n \in 1 .. Len(mediaStreams) : mediaStreams[n] = 1

-----------------------------------------------------------------------------
(* URL scanner: properties *)

\* the index of the first match of the regular expression in text, 0 if none
FirstUrl(text) ==
  LET Begins(k) == text[k] \in Schemes /\ k < Len(text) /\ ~IsRegexSpace(text[k + 1])
  IN IF \E k \in 1 .. Len(text) : Begins(k)
     THEN CHOOSE k \in 1 .. Len(text) : Begins(k) /\ \A j \in 1 .. k - 1 : ~Begins(j)
     ELSE 0

\* the number of %22 that lie between index s and index j (before j)
QuotesBetween(text, s, j) ==
  Cardinality({ k \in s .. j - 3 : SubSeq(text, k, k + 2) = Quote })

\* a URL that begins at s ends at j: the text is over, or the piece at j is white
\* space or one of ) " ' < > and an even number of %22 lies before it
EndsAt(text, s, j) ==
  \/ j = Len(text) + 1
  \/ /\ text[j] \in { " ", "\t", "\n", "\r", ")", "\"", "'", "<", ">" }
     /\ QuotesBetween(text, s, j) % 2 = 0

UrlEnd(text, s) ==
  CHOOSE j \in s .. Len(text) + 1 :
    EndsAt(text, s, j) /\ \A k \in s .. j - 1 : ~EndsAt(text, s, k)

\* C20: every %22 toggles a quoted state in which white space does not end the
\* URL; outside it the URL ends at the first space, tab, newline, carriage
\* return or ) " ' < > (or with the text).  The first URL of a text is returned
\* as one url segment that reaches from its beginning to that end, its trailing
\* punctuation cleaned; for 'See https://x.test/q?n=%22a b%22 now' the segments
\* are the text 'See ', the url 'https://x.test/q?n=%22a b%22', the text ' now'
C20_QuotedUrlIsOneSegment ==
  did = "parse" =>
    LET segments == output[1]
        s == FirstUrl(input)
        n == IF s > 1 THEN 2 ELSE 1
    IN /\ s # 0 =>
            /\ Len(segments) >= n
            /\ segments[n] = [type |-> "url",
                              content |-> CleanUrl(SubSeq(input, s, UrlEnd(input, s) - 1))]
            /\ s > 1 => segments[1] = [type |-> "text", content |-> SubSeq(input, 1, s - 1)]
       /\ s = 0 => segments = << [type |-> "text", content |-> input] >>
       /\ input = ExampleText =>
            segments = << [type |-> "text", content |-> SubSeq(ExampleText, 1, 4)],
                          [type |-> "url", content |-> SubSeq(ExampleText, 5, 25)],
                          [type |-> "text", content |-> SubSeq(ExampleText, 26, 29)] >>

\* the example has been scanned: its URL holds a blank between two %22
C20_Witness ==
  /\ did = "parse" /\ input = ExampleText /\ Len(output[1]) = 3
  /\ output[1][2].type = "url" /\ includes(output[1][2].content, << "a", " ", "b" >>)

-----------------------------------------------------------------------------
(* Chat Session Manager: suggestions, payload *)

Min(a, b) == IF a < b THEN a ELSE b

\* list holds the first three entries of received, or all of them if fewer
FirstThreeOf(list, received) ==
  IsPrefix(list, received) /\ Len(list) = Min(3, Len(received))

\* C21: the suggestion list never holds more than three entries.  After the
\* initial load it is the first three of the list received (of the default list
\* when the server sent none) or, when the load failed, the default list; after a
\* successful chat reply that carries suggestions it is the first three of these
C21_SuggestionsCapped ==
  [][/\ \A p \in Panels : Len(chatbots'[p].suggestions) <= 3
     /\ \A p \in suggestionRequests \ suggestionRequests' :
          /\ did' = "suggestions" =>
               FirstThreeOf(chatbots'[p].suggestions, OrElse(input'[1], DefaultSuggestions))
          /\ did' = "nosuggestions" => chatbots'[p].suggestions = DefaultSuggestions
     /\ \A i \in 1 .. Len(chatRequests) :
          /\ did' = "reply" /\ chatRequests' = Without(chatRequests, i)
          /\ ~chatRequests[i].orphan /\ input'[1] # <<>>
          => FirstThreeOf(chatbots'[chatRequests[i].panel].suggestions, input'[1][1])]_vars

\* a reply has brought four suggestions and three are shown
C21_Witness ==
  /\ did = "reply" /\ input # <<>> /\ input[1] # <<>> /\ Len(input[1][1]) = 4
  /\ Len(chatbots["desktop"].suggestions) = 3 /\ Len(chatbots["desktop"].messages) = 3

\* C22: a call of sendChatMessage posts one payload.  It holds the text and the
\* session identifier given; it has an image field only when image data is
\* given: the part after the comma that ends the data-URL prefix if the data
\* contains a comma, the data unchanged otherwise
C22_PayloadOfSend ==
  did = "post" =>
    /\ Len(output) = 1
    /\ output[1].message = input.message
    /\ input.context.session_id # <<>> => output[1].session_id = input.context.session_id[1]
    /\ LET data == input.imageData
           present == data # <<>> /\ data[1] # <<>>
       IN /\ ~present => output[1].image = <<>>
          /\ present =>
               /\ Len(output[1].image) = 1
               /\ IF \E k \in 1 .. Len(data[1]) : data[1][k] = ","
                  THEN \E prefix \in { SubSeq(data[1], 1, k) : k \in 0 .. Len(data[1]) } :
                         /\ ~includes(prefix, << "," >>)
                         /\ data[1] = prefix \o << "," >> \o output[1].image[1]
                  ELSE output[1].image[1] = data[1]

\* a data URL was given and the payload holds its base64 part
C22_Witness ==
  /\ did = "post" /\ input.imageData = << FileImage >>
  /\ output[1].image = << << "iVBORw0KGgo" >> >>

-----------------------------------------------------------------------------
(* Occurrence data *)

\* what is displayed of a response: its fields, or for an absent field an empty
\* list, an empty object, 0
DisplayOf(data) ==
  << IF data.occurrences = <<>> THEN <<>> ELSE data.occurrences[1],
     IF data.facets = <<>> THEN {} ELSE data.facets[1],
     IF data.totalRecords = <<>> THEN 0 ELSE data.totalRecords[1] >>

\* C23: occurrence data is replaced wholesale: the occurrences, the facets and
\* the total displayed are always those of one and the same response (absent
\* fields replaced by an empty list, an empty object and 0) or the initial empty
\* values, and only the arrival of a response changes them
C23_ReplacedWholesale ==
  /\ [](\/ Displayed = << <<>>, {}, 0 >>
        \/ \E data \in Responses : Displayed = DisplayOf(data))
  /\ [][Displayed' # Displayed =>
          /\ did' \in { "resolve", "stale" }
          /\ Len(inflight') = Len(inflight) - 1
          /\ \E data \in Responses : Displayed' = DisplayOf(data)]_vars

\* a response of four occurrences is displayed, its facets and its total with
\* it, while another request is in flight
C23_Witness ==
  /\ did = "resolve" /\ Len(occurrences) = 4 /\ totalInViewport = 14
  /\ facets = { << "records", 4 >> } /\ inflight # <<>>

-----------------------------------------------------------------------------
(* Service worker: properties *)

\* the request is to the worker's origin
SameOrigin(request) == OriginOf(request.url) = Origin

IsApi(request) == includes(request.url, << "/api/" >>)

\* the last step was a step of event i: it has gone on to its next stage, or it
\* is over
Advanced(i) == Len(swEvents') = Len(swEvents) /\ swEvents'[i] # swEvents[i]
Ended(i) == swEvents' = Without(swEvents, i)
Acted(e, i) == did' = e /\ (Advanced(i) \/ Ended(i))

\* the last step was the arrival of the network's response at event i: the
\* response is returned; stored is whether a copy of it is on its way to the cache
Returned(i, stored) ==
  \E response \in NetworkResponses(swEvents[i].request) :
     /\ swAnswer' = << [request |-> swEvents[i].request, response |-> << response >>] >>
     /\ IF stored
        THEN swEvents' = [swEvents EXCEPT ![i].stage = "put", ![i].copy = << response >>]
        ELSE Ended(i)

Valid(response) == response.status = 200 /\ response.type = "basic"

\* what the worker does on a cache miss, and when it stores: the response of the
\* network is returned, and stored only if its status is 200 and its type basic
MissFetches(i) ==
  LET e == swEvents[i] IN
    /\ e.stage = "match" /\ Acted("miss", i) =>
         swEvents' = [swEvents EXCEPT ![i].stage = "network"] /\ swAnswer' = swAnswer
    /\ e.stage = "network" /\ Acted("fetched", i) =>
         /\ Returned(i, TRUE) \/ Returned(i, FALSE)
         /\ Returned(i, TRUE) => Valid(swEvents'[i].copy[1])
    /\ e.stage = "put" /\ Acted("put", i) =>
         Valid(e.copy[1]) /\ swCache' = put(swCache, e.request, e.copy[1])
    /\ swCache' # swCache => did' = "put"

\* the cached response is returned to event i, which is over with it
Hit(i) ==
  /\ swAnswer' = << [request |-> swEvents[i].request,
                     response |-> match(swCache, swEvents[i].request)] >>
  /\ swAnswer'[1].response # <<>>

\* C24 as stated: a same-origin request with no /api/ in its URL: on a cache hit
\* the cached response is returned and a network request that refreshes the
\* cache entry is made; on a miss the response of the network is returned, and
\* stored only if it is valid
C24_CacheFirstWithRefresh ==
  [][\A i \in 1 .. Len(swEvents) :
       LET e == swEvents[i] IN
         SameOrigin(e.request) /\ ~IsApi(e.request) =>
           /\ e.stage = "match" /\ Acted("hit", i) =>
                /\ Hit(i)
                /\ \E j \in 1 .. Len(swEvents') :
                      swEvents'[j].request = e.request /\ swEvents'[j].stage = "network"
           /\ MissFetches(i)]_vars

\* C24 amended: on a cache hit the cached response is returned and that is all:
\* no network request is made and the cache entry stays as it is
C24_CacheFirst ==
  [][\A i \in 1 .. Len(swEvents) :
       LET e == swEvents[i] IN
         SameOrigin(e.request) /\ ~IsApi(e.request) =>
           /\ e.stage = "match" /\ Acted("hit", i) =>
                Hit(i) /\ Ended(i) /\ swCache' = swCache
           /\ MissFetches(i)]_vars

\* the logo, fetched and stored after a miss, has been served from the cache
C24_Witness ==
  /\ did = "hit" /\ swAnswer # <<>> /\ swAnswer[1].request.url = LogoPng
  /\ swAnswer[1].response = << [status |-> 200, type |-> "basic", body |-> 2] >>

\* the worker answers no request to another origin
CrossOriginUntouched ==
  /\ \A i \in 1 .. Len(swEvents') : SameOrigin(swEvents'[i].request)
  /\ swAnswer' # <<>> => SameOrigin(swAnswer'[1].request)

\* the network is tried first for event i, and the cache only when it has failed
NetworkBeforeCache(i) ==
  LET e == swEvents[i] IN
    /\ e.stage \in { "network", "fallback", "put" }
    /\ e.stage = "network" /\ Acted("fetched", i) => Returned(i, TRUE)
    /\ e.stage = "network" /\ Acted("failed", i) =>
         swEvents' = [swEvents EXCEPT ![i].stage = "fallback"] /\ swAnswer' = swAnswer
    /\ e.stage = "fallback" /\ Acted("fallback", i) =>
         /\ Ended(i)
         /\ swAnswer' = << [request |-> e.request, response |-> match(swCache, e.request)] >>

\* a copy of the response returned to event i is stored in the cache
CopyStored(i) ==
  LET e == swEvents[i] IN
    e.stage = "put" /\ Acted("put", i) => << e.request.url, e.copy[1] >> \in swCache'

\* C25: a same-origin request with /api/ in its URL: the network is tried first;
\* when it answers, its response is returned and a copy is stored in the cache;
\* only when it fails is the cached response for the request returned.  The
\* worker answers no cross-origin request
C25_NetworkFirst ==
  [][/\ CrossOriginUntouched
     /\ \A i \in 1 .. Len(swEvents) :
          SameOrigin(swEvents[i].request) /\ IsApi(swEvents[i].request) =>
            NetworkBeforeCache(i) /\ CopyStored(i)]_vars

\* C25 without the storing and without the cross-origin requests
NetworkFirstElse ==
  [][\A i \in 1 .. Len(swEvents) :
        SameOrigin(swEvents[i].request) /\ IsApi(swEvents[i].request) =>
          NetworkBeforeCache(i)]_vars

\* of C25, the storing alone
EveryCopyStored ==
  [][\A i \in 1 .. Len(swEvents) :
        SameOrigin(swEvents[i].request) /\ IsApi(swEvents[i].request) => CopyStored(i)]_vars

\* of C25, the cross-origin requests alone
NoCrossOriginAnswer == [][CrossOriginUntouched]_vars

-----------------------------------------------------------------------------
(* Popup Lifecycle Manager: timers that outlive what they were set for *)

\* C26: a popup the user has closed is not opened again by the program: when
\* the timer of the re-open effect, set by a reload before the close, fires
\* right after the close, no popup opens
C26_NoReopenAfterClose ==
  [][did = "close" /\ popup = <<>> /\ ~isPopupOpen /\ openPopupInfo = <<>> /\ did' = "reopen"
     => popup' = <<>> /\ ~isPopupOpen']_vars

\* C27: every popup-open keeps the guard isAutoPanning set for the 600 ms that
\* follow it unless the popup closes first: while the popup is open and the
\* timer of its popup-open has time left, the guard is set (the timer of an
\* earlier popup-open does not clear it)
C27_GuardLastsItsTime ==
  isPopupOpen /\ guardTimers # <<>> /\ Last(guardTimers) > 0 => isAutoPanning

-----------------------------------------------------------------------------
(* Debounced Fetch Controller: the loading flag *)

\* C28: the loading flag is true whenever a fetch of occurrences is in flight,
\* also when two fetches overlap
C28_LoadingWhileFetching == inflight # <<>> => loading

-----------------------------------------------------------------------------
(* Chat Session Manager: sends and clears that overlap *)

\* a Chatbot has at most one chat request in flight, and while it has one no
\* send can be started
OneRequestInFlight ==
  \A p \in Panels :
     /\ Len(RequestsOf(chatRequests, p)) <= 1
     /\ RequestsOf(chatRequests, p) # <<>> =>
          LET c == chatbots[p] IN SendDisabled(c) /\ InputDisabled(c) /\ ~ChipsEnabled(c)

\* after its first message a transcript holds user and assistant messages in turn
Alternating(messages) ==
  \A k \in 2 .. Len(messages) :
     messages[k].type = IF k % 2 = 0 THEN "user" ELSE "assistant"

\* C29: a Chatbot has at most one chat request in flight: while a send is
\* unsettled no send can be started by the send button, the Enter key or a chip;
\* so user and assistant messages alternate in the transcript after its first
\* message
C29_OneSendAtATime ==
  /\ OneRequestInFlight
  /\ \A p \in Panels : Alternating(chatbots[p].messages)

\* the turns are out of step only in a transcript that was cleared
AlternatingUnlessCleared ==
  \A p \in Panels :
     Alternating(chatbots[p].messages) \/ chatbots[p].messages[1].text = ClearedText

ClearedMessage == [type |-> "assistant", text |-> ClearedText, image |-> <<>>]

\* C30: after a confirmed clearConversation the transcript is the message
\* "Conversation cleared ..." alone until the user starts the next send: what
\* comes back for a request sent before the clear is not appended
C30_ClearedStaysCleared ==
  [][\A p \in Panels :
       /\ Usable(p) /\ showExplore' /\ chatbots[p].messages = << ClearedMessage >>
       /\ ~SendAttempt
       => chatbots'[p].messages = << ClearedMessage >>]_vars

-----------------------------------------------------------------------------
(* Camera: the streams that are live *)

\* the streams whose track is running
LiveStreams == { n \in 1 .. Len(mediaStreams) : mediaStreams[n] = 0 }

\* stream n is in the streamRef of a Chatbot on the page, where stopCamera or
\* the cleanup will find it
Held(n) == \E p \in Panels : Usable(p) /\ chatbots[p].streamRef = << n >>

\* C31: at most one camera stream is live at any time, and every stream
\* acquired by startCamera is stopped in the end: a live stream is the one its
\* Chatbot holds in streamRef (the handle is not overwritten while the tracks of
\* the stream it held are running), and no stream is live for a Chatbot that has
\* left the page
C31_OneLiveStreamHeld ==
  /\ Cardinality(LiveStreams) <= 1
  /\ \A n \in LiveStreams : Held(n)

-----------------------------------------------------------------------------
(* URL scanner: what the segments hold *)

\* the contents of the segments, one after the other
ContentsOf(segments) == Concat([k \in 1 .. Len(segments) |-> segments[k].content])

\* C32: for every text the contents of the segments that
\* parseUrlsWithQuotedParams returns, concatenated in order, are the text: no
\* character is dropped or duplicated, also when trailing punctuation is
\* stripped from a URL and when a later match begins inside the quoted section
\* of an earlier URL
C32_SegmentsSpellTheText ==
  did = "parse" => ContentsOf(output[1]) = input

\* the segments spell the text when it has one scheme at most and no full stop
SegmentsSpellPlainText ==
  did = "parse" /\ Len(MatchStarts(input, 1)) <= 1 /\ ~includes(input, << "." >>)
    => ContentsOf(output[1]) = input

\* a later match inside the quoted section of an earlier URL is shown twice
QuotedSectionOnce ==
  did = "parse" /\ ~includes(input, << "." >>) => ContentsOf(output[1]) = input

-----------------------------------------------------------------------------
(* Chat Session Manager: what is sent and what is shown *)

\* the step is a send of the Chatbot in panel p that issued a request
Sent(p) ==
  /\ SendAttempt /\ Usable(p)
  /\ Len(RequestsOf(chatRequests', p)) = Len(RequestsOf(chatRequests, p)) + 1

\* C33: for every send that is not a no-op the message text sent to the chat
\* endpoint is the text of the user message appended to the transcript for that
\* send, an image-only send with empty input included (transcript text 'Please
\* analyse this image')
C33_SentTextIsShownText ==
  [][\A p \in Panels :
       Sent(p) => Last(RequestsOf(chatRequests', p)).payload.message
                    = Last(chatbots'[p].messages).text]_vars

\* the text sent is the text shown whenever the user typed or chose a text
TypedTextIsShownText ==
  [][\A p \in Panels :
       Sent(p) /\ Last(RequestsOf(chatRequests', p)).payload.message # <<>>
         => Last(RequestsOf(chatRequests', p)).payload.message
              = Last(chatbots'[p].messages).text]_vars

-----------------------------------------------------------------------------
(* The chat drawer *)

\* the drag state is reset
DragReset ==
  ~isDragging /\ drawerDragOffset = 0 /\ touchStartY = <<>> /\ touchStartTime = <<>>

\* C34: after every touch-end on the drawer handle the drag state is reset
\* (isDragging false, drag offset 0, start position and start time cleared),
\* for every touch-start position, clientY = 0 included; between gestures
\* isDragging is never true
C34_TouchEndResetsDrag ==
  /\ did = "touchend" => DragReset
  /\ touches = 0 => ~isDragging

\* a touch-end resets the drag state of a gesture that began below the top edge
TouchEndResetsDragBelowTop ==
  /\ did = "touchend" /\ touchStartY # << 0 >> => DragReset
  /\ touches = 0 /\ touchStartY # << 0 >> => ~isDragging

-----------------------------------------------------------------------------
(* Consent *)

\* the step called handleStartExploring or handleNavigateToExplore
AskedForMap == did' \in { "start", "explore" }

\* C35: the explore view is shown only with consent: showExplore implies
\* hasConsented in every state; handleStartExploring and
\* handleNavigateToExplore called without consent leave showExplore false and
\* do no more than raise the shake flag, which a timer clears 500 ms later
C35_ExploreOnlyWithConsent ==
  [][/\ showExplore' => hasConsented'
     /\ AskedForMap /\ ~hasConsented
        => /\ ~showExplore' /\ shakeConsent' /\ ~hasConsented'
           /\ shakeTimers' = Append(shakeTimers, ShakeDelay)
           /\ UNCHANGED << occurrences, facets, totalInViewport, filters, loading,
                           initialLoading, inflight, debounceTimer, chatbots >>
     /\ shakeConsent' => shakeTimers' # <<>>
     /\ did' = "shake" => shakeTimers # <<>> /\ Head(shakeTimers) = 0 /\ ~shakeConsent']_vars

\* the map was asked for without consent, and 500 ms later the shake flag has
\* been cleared on the landing page
C35_Witness ==
  did = "shake" /\ ~shakeConsent /\ ~showExplore /\ ~hasConsented /\ shakeTimers = <<>>

-----------------------------------------------------------------------------
(* Initial loading *)

\* the step settled a viewport fetch
FetchSettled == did' \in { "resolve", "stale", "reject" }

\* C36: initialLoading starts true, becomes false when the first viewport fetch
\* settles, whether it succeeds or fails, and never becomes true again
C36_InitialLoadingEndsOnce ==
  /\ initialLoading = TRUE
  /\ [][/\ FetchSettled => ~initialLoading'
        /\ initialLoading /\ ~initialLoading' => FetchSettled
        /\ ~initialLoading => ~initialLoading']_vars

\* the first viewport fetch has failed and initialLoading is false
C36_Witness == did = "reject" /\ ~initialLoading /\ occurrences = <<>> /\ showExplore

-----------------------------------------------------------------------------
(* The carousel of a popup *)

\* a RecordPopup is on the page
Mounted == recordsArray # <<>>

\* the auto-scroll of the carousel: the interval runs exactly while auto-scroll
\* is enabled and there is more than one record, its callback runs when 3 s
\* have passed and moves the index on by one, wrapping; a manual step disables
\* auto-scroll
AutoScrolls(Changed) ==
     /\ did' = "autoscroll"
        => /\ autoScrollEnabled /\ hasMultipleRecords(St) /\ autoScrollTimerRef = << 0 >>
           /\ currentIndex' = (currentIndex + 1) % totalRecords(St)
           /\ autoScrollTimerRef' = << AutoScrollDelay >>
     /\ Mounted'
        => /\ autoScrollTimerRef' # <<>>
                <=> autoScrollEnabled' /\ Len(recordsArray'[1].records) > 1
           /\ autoScrollTimerRef' # <<>> => autoScrollTimerRef'[1] \in 0 .. AutoScrollDelay
     /\ did' \in { "next", "previous" } => ~autoScrollEnabled'
     /\ Mounted /\ ~autoScrollEnabled /\ autoScrollEnabled' => Changed
     /\ Mounted /\ Changed => currentIndex' = 0 /\ autoScrollEnabled'

\* the records of the popup are others than before
RecordsChanged == recordsArray'[1].records # recordsArray[1].records

\* C37: in the popup carousel auto-scroll moves the index on by one (wrapping)
\* every 3 s, only while auto-scroll is enabled and the group has more than one
\* record; a manual next or previous disables auto-scroll, and it stays disabled
\* until the records of the popup change, which resets the index to 0 and
\* enables auto-scroll again
C37_AutoScrollUntilManual == [][AutoScrolls(RecordsChanged)]_vars

\* the same with a change of the array passed, whatever it holds
AutoScrollUntilNewArray == [][AutoScrolls(did' = "records")]_vars

\* C38: for a fixed list of n >= 1 records the carousel index stays in
\* 0 .. n - 1 after any sequence of next, previous and auto-scroll steps; next
\* takes i to (i + 1) mod n, previous takes i to (i - 1 + n) mod n, and next
\* followed by previous, or previous followed by next, returns to the same index
C38_IndexInRange ==
  Mounted =>
    LET n == totalRecords(St) IN
    /\ currentIndex \in 0 .. n - 1
    /\ goToNext(St).currentIndex = (currentIndex + 1) % n
    /\ goToPrevious(St).currentIndex = (currentIndex - 1 + n) % n
    /\ goToNext(St).currentIndex \in 0 .. n - 1
    /\ goToPrevious(St).currentIndex \in 0 .. n - 1
    /\ goToPrevious(goToNext(St)).currentIndex = currentIndex
    /\ goToNext(goToPrevious(St)).currentIndex = currentIndex

\* previous has wrapped from the first of three records to the last
C38_Witness ==
  Mounted /\ did = "previous" /\ totalRecords(St) = 3 /\ currentIndex = 2
    /\ goToNext(St).currentIndex = 0

====
